---- MODULE Spec2Model ----
(***************************************************************************)
(* Model of elizaos_plugin_whatsapp: the multi-account resolver and the    *)
(* policy checks of accounts.py, the normalization and chunking of         *)
(* normalize.py and the chat states of service.py.                         *)
(*                                                                         *)
(* Data representation                                                     *)
(*   - a Python str is the sequence of its code points (" a" = <<32,97>>), *)
(*     so that strip(), lower() and sorted() are computed, not assumed;    *)
(*   - an optional value (X | None) is None == <<>> or Some(x) == <<x>>;   *)
(*   - a dict with string keys is a function whose DOMAIN is the set of    *)
(*     keys present; the accounts map, whose iteration order matters, is a *)
(*     sequence of [key, value] records with distinct keys;                *)
(*   - a call either returns a value or raises: [exc, val].                *)
(***************************************************************************)
EXTENDS Integers, Sequences, FiniteSets, TLC

VARIABLES character, settings, service, call, ret

vars == <<character, settings, service, call, ret>>

----------------------------------------------------------------------------
(* Optional values and call outcomes *)

None == <<>>

Some(x) == <<x>>

IsNone(x) == Len(x) = 0

Return(v) == [exc |-> FALSE, val |-> v]

Raise == [exc |-> TRUE, val |-> None]

Get(d, k) == IF k \in DOMAIN d THEN d[k] ELSE None

----------------------------------------------------------------------------
(* Python str operations *)

IsSpace(c) == c \in {9, 10, 11, 12, 13, 28, 29, 30, 31, 32, 133, 160}

lower_char(c) == IF c \in 65..90 THEN c + 32 ELSE c

lower(s) == [i \in 1..Len(s) |-> lower_char(s[i])]

RECURSIVE lstrip(_)
lstrip(s) == IF s # <<>> /\ IsSpace(Head(s)) THEN lstrip(Tail(s)) ELSE s

RECURSIVE rstrip(_)
rstrip(s) ==
    IF s # <<>> /\ IsSpace(s[Len(s)]) THEN rstrip(SubSeq(s, 1, Len(s) - 1)) ELSE s

strip(s) == rstrip(lstrip(s))

\* a < b in Python's str ordering (code point by code point, prefix first)
RECURSIVE StrLess(_, _)
StrLess(a, b) ==
    IF b = <<>> THEN FALSE
    ELSE IF a = <<>> THEN TRUE
    ELSE IF Head(a) # Head(b) THEN Head(a) < Head(b)
    ELSE StrLess(Tail(a), Tail(b))

\* sorted(ids) for a set of str
RECURSIVE sorted(_)
sorted(S) ==
    IF S = {} THEN <<>>
    ELSE LET m == CHOOSE x \in S : \A y \in S : x = y \/ StrLess(x, y)
         IN  <<m>> \o sorted(S \ {m})

\* truthiness of an optional str: neither None nor ""
Truthy(x) == ~IsNone(x) /\ x[1] # <<>>

\* the idiom  `x and x.strip()`  of the resolver, as a boolean
TruthyStripped(x) == Truthy(x) /\ strip(x[1]) # <<>>

----------------------------------------------------------------------------
(* Constants of accounts.py *)

\* "default"
DEFAULT_ACCOUNT_ID == <<100, 101, 102, 97, 117, 108, 116>>

\* "open", "allowlist", "pairing", "disabled"
POLICY_OPEN == <<111, 112, 101, 110>>

POLICY_ALLOWLIST == <<97, 108, 108, 111, 119, 108, 105, 115, 116>>

POLICY_PAIRING == <<112, 97, 105, 114, 105, 110, 103>>

POLICY_DISABLED == <<100, 105, 115, 97, 98, 108, 101, 100>>

DmPolicyLiteral == {POLICY_OPEN, POLICY_ALLOWLIST, POLICY_PAIRING, POLICY_DISABLED}

GroupPolicyLiteral == {POLICY_OPEN, POLICY_ALLOWLIST, POLICY_DISABLED}

\* WhatsAppTokenSource
SOURCE_CONFIG == "config"

SOURCE_ENV == "env"

SOURCE_NONE == "none"

\* field names (aliases) of the three pydantic models
GroupFields == {"enabled", "allowFrom", "requireMention", "systemPrompt", "skills"}

AccountFields ==
    {"name", "enabled", "accessToken", "phoneNumberId", "businessAccountId",
     "webhookVerifyToken", "apiVersion", "allowFrom", "groupAllowFrom",
     "dmPolicy", "groupPolicy", "mediaMaxMb", "textChunkLimit", "groups"}

MultiAccountFields ==
    {"enabled", "accessToken", "phoneNumberId", "businessAccountId",
     "webhookVerifyToken", "apiVersion", "dmPolicy", "groupPolicy",
     "mediaMaxMb", "textChunkLimit", "accounts", "groups"}

\* the runtime settings the resolver reads
SettingKeys ==
    {"WHATSAPP_ACCESS_TOKEN", "WHATSAPP_PHONE_NUMBER_ID",
     "WHATSAPP_BUSINESS_ACCOUNT_ID", "WHATSAPP_WEBHOOK_VERIFY_TOKEN",
     "WHATSAPP_DM_POLICY", "WHATSAPP_GROUP_POLICY"}

\* runtime.get_setting(key): the stored str, or None when the key is not set
get_setting(s, key) == IF key \in DOMAIN s THEN Some(s[key]) ELSE None

----------------------------------------------------------------------------
(* Dict helpers *)

\* {k: v for k, v in d.items() if v is not None}
_filter_defined(d) == [k \in {x \in DOMAIN d : ~IsNone(d[x])} |-> d[k]]

\* {**a, **b}: the keys of both, b's value where both have the key
DictUpdate(a, b) ==
    [k \in (DOMAIN a) \cup (DOMAIN b) |-> IF k \in DOMAIN b THEN b[k] ELSE a[k]]

----------------------------------------------------------------------------
(* The pydantic models: construction validates and fills absent fields     *)
(* with None; keys that are not fields of the model are ignored.           *)

WhatsAppGroupRuntimeConfig(d) == [f \in GroupFields |-> Get(d, f)]

\* dict[str, WhatsAppGroupRuntimeConfig] | None
GroupsField(g) ==
    IF IsNone(g) THEN None
    ELSE Some([id \in DOMAIN g[1] |-> WhatsAppGroupRuntimeConfig(g[1][id])])

\* Literal[...] | None
LiteralOk(v, allowed) == IsNone(v) \/ v[1] \in allowed

WhatsAppAccountRuntimeConfig(d) ==
    IF /\ LiteralOk(Get(d, "dmPolicy"), DmPolicyLiteral)
       /\ LiteralOk(Get(d, "groupPolicy"), GroupPolicyLiteral)
    THEN Return([f \in AccountFields |->
                    IF f = "groups" THEN GroupsField(Get(d, f)) ELSE Get(d, f)])
    ELSE Raise

\* dict[str, WhatsAppAccountRuntimeConfig] | None, in the dict's order: the
\* entries as validated one by one, failing when one of them fails
ValidatedAccounts(entries) ==
    IF \E i \in 1..Len(entries) : entries[i].value.exc THEN Raise
    ELSE Return(Some([i \in 1..Len(entries) |->
                        [key |-> entries[i].key, value |-> entries[i].value.val]]))

AccountsField(a) ==
    IF IsNone(a) THEN Return(None)
    ELSE ValidatedAccounts(
             [i \in 1..Len(a[1]) |->
                 [key   |-> a[1][i].key,
                  value |-> WhatsAppAccountRuntimeConfig(a[1][i].value)]])

MultiAccountModel(d, accounts) ==
    IF /\ LiteralOk(Get(d, "dmPolicy"), DmPolicyLiteral)
       /\ LiteralOk(Get(d, "groupPolicy"), GroupPolicyLiteral)
       /\ ~accounts.exc
    THEN Return([f \in MultiAccountFields |->
                    IF f = "accounts" THEN accounts.val
                    ELSE IF f = "groups" THEN GroupsField(Get(d, f))
                    ELSE Get(d, f)])
    ELSE Raise

WhatsAppMultiAccountConfig(d) == MultiAccountModel(d, AccountsField(Get(d, "accounts")))

----------------------------------------------------------------------------
(* Account ID helpers *)

\* normalize_account_id returning the trimmed value in the case it came in
normalize_account_id_KeepsCase(account_id) ==
    IF ~Truthy(account_id) THEN DEFAULT_ACCOUNT_ID
    ELSE LET trimmed == strip(account_id[1])
         IN  IF trimmed = <<>> \/ lower(trimmed) = DEFAULT_ACCOUNT_ID
             THEN DEFAULT_ACCOUNT_ID
             ELSE trimmed

normalize_account_id(account_id) ==
    IF ~Truthy(account_id) THEN DEFAULT_ACCOUNT_ID
    ELSE LET trimmed == lower(strip(account_id[1]))
         IN  IF trimmed = <<>> \/ trimmed = DEFAULT_ACCOUNT_ID
             THEN DEFAULT_ACCOUNT_ID
             ELSE trimmed

----------------------------------------------------------------------------
(* Multi-account config extraction *)

\* character is None or a dict; "settings" and "whatsapp" are looked up with
\* .get(); an empty settings dict is falsy
_get_character_whatsapp(ch) ==
    IF IsNone(ch) THEN None
    ELSE LET st == Get(ch[1], "settings")
         IN  IF IsNone(st) \/ DOMAIN st[1] = {} THEN None
             ELSE Get(st[1], "whatsapp")

\* the body of get_multi_account_config, given wa: only the twelve keys read
\* with wa.get() reach the model
get_multi_account_config_body(wa) ==
    WhatsAppMultiAccountConfig(
        IF IsNone(wa) \/ DOMAIN wa[1] = {} THEN <<>>
        ELSE [f \in MultiAccountFields |-> Get(wa[1], f)])

get_multi_account_config(ch) ==
    get_multi_account_config_body(_get_character_whatsapp(ch))

----------------------------------------------------------------------------
(* Account listing *)

\* list_whatsapp_account_ids taking the environment for configured as soon
\* as the token is set, whatever the phone number id
list_whatsapp_account_ids_EnvTokenOnly(config, st) ==
    IF config.exc THEN Raise
    ELSE
    LET accounts == config.val.accounts
        env_token == get_setting(st, "WHATSAPP_ACCESS_TOKEN")
        base_configured ==
            /\ TruthyStripped(config.val.accessToken)
            /\ TruthyStripped(config.val.phoneNumberId)
        env_configured == TruthyStripped(env_token)
        ids0 == IF base_configured \/ env_configured
                THEN {DEFAULT_ACCOUNT_ID} ELSE {}
        ids1 == IF ~IsNone(accounts) /\ accounts[1] # <<>>
                THEN {normalize_account_id(Some(accounts[1][i].key)) :
                        i \in {j \in 1..Len(accounts[1]) :
                                 accounts[1][j].key # <<>>}}
                ELSE {}
    IN  IF ids0 \cup ids1 = {} THEN Return(<<DEFAULT_ACCOUNT_ID>>)
        ELSE Return(sorted(ids0 \cup ids1))

\* list_whatsapp_account_ids adding the keys as they are, not normalised
list_whatsapp_account_ids_RawKeys(config, st) ==
    IF config.exc THEN Raise
    ELSE
    LET accounts == config.val.accounts
        env_token == get_setting(st, "WHATSAPP_ACCESS_TOKEN")
        env_phone == get_setting(st, "WHATSAPP_PHONE_NUMBER_ID")
        base_configured ==
            /\ TruthyStripped(config.val.accessToken)
            /\ TruthyStripped(config.val.phoneNumberId)
        env_configured ==
            TruthyStripped(env_token) /\ TruthyStripped(env_phone)
        ids0 == IF base_configured \/ env_configured
                THEN {DEFAULT_ACCOUNT_ID} ELSE {}
        ids1 == IF ~IsNone(accounts) /\ accounts[1] # <<>>
                THEN {accounts[1][i].key :
                        i \in {j \in 1..Len(accounts[1]) :
                                 accounts[1][j].key # <<>>}}
                ELSE {}
    IN  IF ids0 \cup ids1 = {} THEN Return(<<DEFAULT_ACCOUNT_ID>>)
        ELSE Return(sorted(ids0 \cup ids1))

\* the body of list_whatsapp_account_ids, given config
list_whatsapp_account_ids_body(config, st) ==
    IF config.exc THEN Raise
    ELSE
    LET accounts == config.val.accounts
        env_token == get_setting(st, "WHATSAPP_ACCESS_TOKEN")
        env_phone == get_setting(st, "WHATSAPP_PHONE_NUMBER_ID")
        base_configured ==
            /\ TruthyStripped(config.val.accessToken)
            /\ TruthyStripped(config.val.phoneNumberId)
        env_configured ==
            TruthyStripped(env_token) /\ TruthyStripped(env_phone)
        ids0 == IF base_configured \/ env_configured
                THEN {DEFAULT_ACCOUNT_ID} ELSE {}
        ids1 == IF ~IsNone(accounts) /\ accounts[1] # <<>>
                THEN {normalize_account_id(Some(accounts[1][i].key)) :
                        i \in {j \in 1..Len(accounts[1]) :
                                 accounts[1][j].key # <<>>}}
                ELSE {}
    IN  IF ids0 \cup ids1 = {} THEN Return(<<DEFAULT_ACCOUNT_ID>>)
        ELSE Return(sorted(ids0 \cup ids1))

list_whatsapp_account_ids(ch, st) ==
    list_whatsapp_account_ids_body(get_multi_account_config(ch), st)

\* the body of resolve_default_whatsapp_account_id, given ids
resolve_default_whatsapp_account_id_body(ids) ==
    IF ids.exc THEN Raise
    ELSE IF \E i \in 1..Len(ids.val) : ids.val[i] = DEFAULT_ACCOUNT_ID
    THEN Return(DEFAULT_ACCOUNT_ID)
    ELSE IF ids.val # <<>> THEN Return(ids.val[1])
    ELSE Return(DEFAULT_ACCOUNT_ID)

resolve_default_whatsapp_account_id(ch, st) ==
    resolve_default_whatsapp_account_id_body(list_whatsapp_account_ids(ch, st))

----------------------------------------------------------------------------
(* Account-specific config lookup *)

\* the body of _get_account_config, given config: the direct match, else the
\* first entry in the dict's order whose normalised key is the normalised id
_get_account_config_body(config, account_id) ==
    IF config.exc THEN Raise
    ELSE
    LET accounts == config.val.accounts
    IN  IF IsNone(accounts) \/ accounts[1] = <<>> THEN Return(None)
        ELSE
        LET acc == accounts[1]
            direct == {i \in 1..Len(acc) : acc[i].key = account_id}
            matches == {i \in 1..Len(acc) :
                          normalize_account_id(Some(acc[i].key))
                              = normalize_account_id(Some(account_id))}
        IN  IF direct # {}
            THEN Return(Some(acc[CHOOSE i \in direct : TRUE].value))
            ELSE IF matches # {}
            THEN Return(Some(acc[CHOOSE i \in matches :
                                   \A j \in matches : i <= j].value))
            ELSE Return(None)

_get_account_config(ch, account_id) ==
    _get_account_config_body(get_multi_account_config(ch), account_id)

----------------------------------------------------------------------------
(* Token resolution *)

WhatsAppTokenResolution(token, source) == [token |-> token, source |-> source]

\* resolve_whatsapp_token without the `account_id == DEFAULT_ACCOUNT_ID` test:
\* every account falls back to the global and the environment token
resolve_whatsapp_token_AnyAccountFallback(multi_config, account_config, env_token, account_id) ==
    IF multi_config.exc THEN Raise
    ELSE IF /\ ~IsNone(account_config.val)
            /\ TruthyStripped(account_config.val[1].accessToken)
    THEN Return(WhatsAppTokenResolution(
             strip(account_config.val[1].accessToken[1]), SOURCE_CONFIG))
    ELSE IF TruthyStripped(multi_config.val.accessToken)
    THEN Return(WhatsAppTokenResolution(
             strip(multi_config.val.accessToken[1]), SOURCE_CONFIG))
    ELSE IF TruthyStripped(env_token)
    THEN Return(WhatsAppTokenResolution(strip(env_token[1]), SOURCE_ENV))
    ELSE Return(WhatsAppTokenResolution(<<>>, SOURCE_NONE))

\* the body of resolve_whatsapp_token, given multi_config, account_config and
\* the WHATSAPP_ACCESS_TOKEN setting
resolve_whatsapp_token_body(multi_config, account_config, env_token, account_id) ==
    IF multi_config.exc THEN Raise
    ELSE IF /\ ~IsNone(account_config.val)
            /\ TruthyStripped(account_config.val[1].accessToken)
    THEN Return(WhatsAppTokenResolution(
             strip(account_config.val[1].accessToken[1]), SOURCE_CONFIG))
    ELSE IF /\ account_id = DEFAULT_ACCOUNT_ID
            /\ TruthyStripped(multi_config.val.accessToken)
    THEN Return(WhatsAppTokenResolution(
             strip(multi_config.val.accessToken[1]), SOURCE_CONFIG))
    ELSE IF account_id = DEFAULT_ACCOUNT_ID /\ TruthyStripped(env_token)
    THEN Return(WhatsAppTokenResolution(strip(env_token[1]), SOURCE_ENV))
    ELSE Return(WhatsAppTokenResolution(<<>>, SOURCE_NONE))

resolve_whatsapp_token(ch, st, account_id) ==
    resolve_whatsapp_token_body(get_multi_account_config(ch),
                                _get_account_config(ch, account_id),
                                get_setting(st, "WHATSAPP_ACCESS_TOKEN"),
                                account_id)

----------------------------------------------------------------------------
(* Config merging *)

\* `get_setting(key) or None`: an empty str counts as not set
OrNone(x) == IF Truthy(x) THEN x ELSE None

EnvDict(st) ==
    [accessToken        |-> OrNone(get_setting(st, "WHATSAPP_ACCESS_TOKEN")),
     phoneNumberId      |-> OrNone(get_setting(st, "WHATSAPP_PHONE_NUMBER_ID")),
     businessAccountId  |-> OrNone(get_setting(st, "WHATSAPP_BUSINESS_ACCOUNT_ID")),
     webhookVerifyToken |-> OrNone(get_setting(st, "WHATSAPP_WEBHOOK_VERIFY_TOKEN")),
     dmPolicy           |-> OrNone(get_setting(st, "WHATSAPP_DM_POLICY")),
     groupPolicy        |-> OrNone(get_setting(st, "WHATSAPP_GROUP_POLICY"))]

\* multi_config.model_dump(by_alias=True, exclude={"accounts"})
BaseDict(multi_config) ==
    [f \in MultiAccountFields \ {"accounts"} |-> multi_config[f]]

\* account_config.model_dump(by_alias=True) if account_config else {}
AccountDict(account_config) ==
    IF IsNone(account_config) THEN <<>> ELSE account_config[1]

\* the body of _merge_whatsapp_account_config, given multi_config and
\* account_config: merge order env < base < account
_merge_whatsapp_account_config_body(multi_config, account_config, st) ==
    IF multi_config.exc THEN Raise
    ELSE WhatsAppAccountRuntimeConfig(
             DictUpdate(DictUpdate(_filter_defined(EnvDict(st)),
                                   _filter_defined(BaseDict(multi_config.val))),
                        _filter_defined(AccountDict(account_config.val))))

_merge_whatsapp_account_config(ch, st, account_id) ==
    _merge_whatsapp_account_config_body(get_multi_account_config(ch),
                                        _get_account_config(ch, account_id), st)

----------------------------------------------------------------------------
(* Full account resolution *)

\* `(x.strip() if x else None) or None`
StripOrNone(x) == IF TruthyStripped(x) THEN Some(strip(x[1])) ELSE None

\* `(x or "").strip()`
StripOrEmpty(x) == IF Truthy(x) THEN strip(x[1]) ELSE <<>>

ResolvedWhatsAppAccount(normalized_id, enabled, merged, resolution, phone_number_id) ==
    [accountId         |-> normalized_id,
     enabled           |-> enabled,
     name              |-> StripOrNone(merged.name),
     accessToken       |-> resolution.token,
     phoneNumberId     |-> phone_number_id,
     businessAccountId |-> StripOrNone(merged.businessAccountId),
     tokenSource       |-> resolution.source,
     configured        |-> resolution.token # <<>> /\ phone_number_id # <<>>,
     config            |-> merged]

\* resolve_whatsapp_account taking the token from the merged configuration
\* instead of the token resolution
resolve_whatsapp_account_MergedToken(normalized_id, multi_config, merged, resolution) ==
    IF multi_config.exc \/ merged.exc \/ resolution.exc THEN Raise
    ELSE Return(ResolvedWhatsAppAccount(
             normalized_id,
             multi_config.val.enabled # Some(FALSE) /\ merged.val.enabled # Some(FALSE),
             merged.val,
             [token  |-> StripOrEmpty(merged.val.accessToken),
              source |-> resolution.val.source],
             StripOrEmpty(merged.val.phoneNumberId)))

\* resolve_whatsapp_account without the .strip() of the phone number id
resolve_whatsapp_account_UntrimmedPhone(normalized_id, multi_config, merged, resolution) ==
    IF multi_config.exc \/ merged.exc \/ resolution.exc THEN Raise
    ELSE Return(ResolvedWhatsAppAccount(
             normalized_id,
             multi_config.val.enabled # Some(FALSE) /\ merged.val.enabled # Some(FALSE),
             merged.val,
             resolution.val,
             IF Truthy(merged.val.phoneNumberId)
             THEN merged.val.phoneNumberId[1] ELSE <<>>))

\* resolve_whatsapp_account without base_enabled: the merged flag alone decides
resolve_whatsapp_account_MergedEnabledOnly(normalized_id, multi_config, merged, resolution) ==
    IF multi_config.exc \/ merged.exc \/ resolution.exc THEN Raise
    ELSE Return(ResolvedWhatsAppAccount(
             normalized_id,
             merged.val.enabled # Some(FALSE),
             merged.val,
             resolution.val,
             StripOrEmpty(merged.val.phoneNumberId)))

\* the body of resolve_whatsapp_account, given the normalised id, multi_config,
\* the merged config and the token resolution
resolve_whatsapp_account_body(normalized_id, multi_config, merged, resolution) ==
    IF multi_config.exc \/ merged.exc \/ resolution.exc THEN Raise
    ELSE Return(ResolvedWhatsAppAccount(
             normalized_id,
             multi_config.val.enabled # Some(FALSE) /\ merged.val.enabled # Some(FALSE),
             merged.val,
             resolution.val,
             StripOrEmpty(merged.val.phoneNumberId)))

resolve_whatsapp_account_normalized(ch, st, normalized_id) ==
    resolve_whatsapp_account_body(
        normalized_id,
        get_multi_account_config(ch),
        _merge_whatsapp_account_config(ch, st, normalized_id),
        resolve_whatsapp_token(ch, st, normalized_id))

resolve_whatsapp_account(ch, st, account_id) ==
    resolve_whatsapp_account_normalized(ch, st, normalize_account_id(account_id))

----------------------------------------------------------------------------
(* Listing enabled accounts *)

\* the accounts that are enabled and configured, failing when a resolution fails
EnabledAndConfigured(accts) ==
    IF \E i \in 1..Len(accts) : accts[i].exc THEN Raise
    ELSE Return(SelectSeq([i \in 1..Len(accts) |-> accts[i].val],
                          LAMBDA acct : acct.enabled /\ acct.configured))

\* the body of list_enabled_whatsapp_accounts, given the listed ids
list_enabled_whatsapp_accounts_body(ids, ch, st) ==
    IF ids.exc THEN Raise
    ELSE EnabledAndConfigured(
             [i \in 1..Len(ids.val) |->
                 resolve_whatsapp_account(ch, st, Some(ids.val[i]))])

list_enabled_whatsapp_accounts(ch, st) ==
    list_enabled_whatsapp_accounts_body(list_whatsapp_account_ids(ch, st), ch, st)

\* the body of is_multi_account_enabled, given the enabled accounts
is_multi_account_enabled_body(accts) ==
    IF accts.exc THEN Raise ELSE Return(Len(accts.val) > 1)

is_multi_account_enabled(ch, st) ==
    is_multi_account_enabled_body(list_enabled_whatsapp_accounts(ch, st))

----------------------------------------------------------------------------
(* The inputs: configurations and runtime settings the resolver is run on  *)

\* largest number of entries of the accounts map in InitAccounts
MaxAccounts == 2

\* " ", and a value with surrounding whitespace: " c "
Blank == <<32>>

Padded(c) == <<32, c, 32>>

\* a dict holding the keys of rec whose value is not None (the others absent)
Present(rec) == _filter_defined(rec)

\* the settings map: the keys that are set, with their str value
SettingsOf(opts) == [k \in {x \in DOMAIN opts : ~IsNone(opts[x])} |-> opts[k][1]]

\* character = {"settings": {"whatsapp": wa}}
CharacterOf(wa) == Some([settings |-> Some([whatsapp |-> Some(wa)])])

\* account ids passed to resolve_whatsapp_token: "default", "Default", "a", " B"
TokenIdArgs == {DEFAULT_ACCOUNT_ID, <<68, 101, 102, 97, 117, 108, 116>>, <<97>>, <<32, 66>>}

\* account ids passed to resolve_whatsapp_account: None, "default", " A ", "b"
AccountIdArgs == {None, Some(DEFAULT_ACCOUNT_ID), Some(<<32, 65, 32>>), Some(<<98>>)}

\* 1. credentials: token and phone-number id at the three layers, with at
\*    most one entry ("a" or "default") in the accounts map
GlobalTokens == {None, Some(Blank), Some(Padded(103))}

GlobalPhones == {None, Some(Blank), Some(Padded(49))}

EnvTokens == {None, Some(<<>>), Some(Blank), Some(<<101, 32>>)}

EnvPhones == {None, Some(<<>>), Some(Blank), Some(<<32, 50>>)}

EntryTokens == {None, Some(Blank), Some(Padded(116))}

EntryPhones == {None, Some(Blank), Some(<<51>>)}

CredentialAccounts ==
    {None} \cup
    {Some(<<[key |-> k, value |-> [accessToken |-> t, phoneNumberId |-> p]]>>) :
        k \in {<<97>>, DEFAULT_ACCOUNT_ID}, t \in EntryTokens, p \in EntryPhones}

InitCredentials ==
    \E gt \in GlobalTokens, gp \in GlobalPhones, et \in EnvTokens,
       ep \in EnvPhones, acc \in CredentialAccounts :
        /\ character = CharacterOf(Present([accessToken   |-> gt,
                                            phoneNumberId |-> gp,
                                            accounts      |-> acc]))
        /\ settings = SettingsOf([WHATSAPP_ACCESS_TOKEN    |-> et,
                                  WHATSAPP_PHONE_NUMBER_ID |-> ep])

\* 2. layers: one configuration key at a time, set or unset in the account
\*    entry "a", in the global layer and (for the six backed keys) in the
\*    runtime settings
Bogus == <<120>>

OneGroup == [g \in {<<49>>} |-> [requireMention |-> Some(TRUE)]]

OtherGroup == [g \in {<<50>>} |-> [enabled |-> Some(FALSE)]]

\* values of key f: in the account entry (1), in the global layer (2)
LayerValues(f, layer) ==
    IF f = "enabled" THEN {None, Some(TRUE), Some(FALSE)}
    ELSE IF f = "dmPolicy"
    THEN {None, Some(Bogus), Some(IF layer = 1 THEN POLICY_OPEN ELSE POLICY_PAIRING)}
    ELSE IF f = "groupPolicy"
    THEN {None, Some(Bogus), Some(IF layer = 1 THEN POLICY_OPEN ELSE POLICY_DISABLED)}
    ELSE IF f \in {"mediaMaxMb", "textChunkLimit"}
    THEN {None, Some(layer)}
    ELSE IF f \in {"allowFrom", "groupAllowFrom"}
    THEN {None, Some(<<<<48 + layer>>>>)}
    ELSE IF f = "groups"
    THEN {None, Some(IF layer = 1 THEN OneGroup ELSE OtherGroup)}
    ELSE {None, Some(<<>>), Some(<<48 + layer, 32>>)}

EnvKeyOf ==
    [accessToken        |-> "WHATSAPP_ACCESS_TOKEN",
     phoneNumberId      |-> "WHATSAPP_PHONE_NUMBER_ID",
     businessAccountId  |-> "WHATSAPP_BUSINESS_ACCOUNT_ID",
     webhookVerifyToken |-> "WHATSAPP_WEBHOOK_VERIFY_TOKEN",
     dmPolicy           |-> "WHATSAPP_DM_POLICY",
     groupPolicy        |-> "WHATSAPP_GROUP_POLICY"]

EnvValues(f) ==
    IF f \in {"dmPolicy", "groupPolicy"}
    THEN {None, Some(<<>>), Some(Bogus), Some(POLICY_ALLOWLIST)}
    ELSE IF f \in DOMAIN EnvKeyOf THEN {None, Some(<<>>), Some(Blank), Some(<<101>>)}
    ELSE {None}

InitLayers ==
    \E f \in AccountFields :
      \E a \in LayerValues(f, 1), g \in LayerValues(f, 2), e \in EnvValues(f) :
        /\ character = CharacterOf(
               DictUpdate(Present([x \in {f} |-> g]),
                          [accounts |-> Some(<<[key |-> <<97>>,
                                                value |-> [x \in {f} |-> a]]>>)]))
        /\ settings = IF IsNone(e) THEN <<>> ELSE [k \in {EnvKeyOf[f]} |-> e[1]]

\* 3. accounts: up to MaxAccounts entries under keys that normalise to the
\*    same or to different ids, with credentials in the global layer and in
\*    the settings
\* "", " ", "a", "b", "B "
AccountKeys == {<<>>, <<32>>, <<97>>, <<98>>, <<66, 32>>}

AccountEntries ==
    {<<>>,
     [accessToken |-> Some(<<116>>), phoneNumberId |-> Some(<<51>>)],
     [accessToken |-> Some(<<116>>), phoneNumberId |-> Some(<<51>>),
      enabled |-> Some(FALSE)]}

AccountMaps ==
    UNION {{m \in [1..n -> [key : AccountKeys, value : AccountEntries]] :
              \A i, j \in 1..n : i # j => m[i].key # m[j].key} :
           n \in 0..MaxAccounts}

InitAccounts ==
    \E m \in AccountMaps, gt \in {None, Some(<<103>>)},
       gp \in {None, Some(<<49>>)}, ep \in {None, Some(<<50>>)} :
        /\ character = CharacterOf(Present([accessToken   |-> gt,
                                            phoneNumberId |-> gp,
                                            accounts      |-> Some(m)]))
        /\ settings = SettingsOf([WHATSAPP_PHONE_NUMBER_ID |-> ep])

\* 4. absence: no character, no settings, no whatsapp section, an empty one
Characters ==
    {None,
     Some(<<>>),
     Some([settings |-> None]),
     Some([settings |-> Some(<<>>)]),
     Some([settings |-> Some([other |-> Some(<<>>)])]),
     Some([settings |-> Some([whatsapp |-> None])]),
     CharacterOf(<<>>),
     CharacterOf([enabled |-> Some(FALSE)])}

InitAbsent ==
    \E ch \in Characters, et \in {None, Some(<<101>>)}, ep \in {None, Some(<<50>>)} :
        /\ character = ch
        /\ settings = SettingsOf([WHATSAPP_ACCESS_TOKEN    |-> et,
                                  WHATSAPP_PHONE_NUMBER_ID |-> ep])

NoCall == [op |-> "none", account_id |-> None]

\* no WhatsAppService instance: the functions of accounts.py and normalize.py
\* are called without one
NoService == None

NoOutcome == [exc |-> FALSE]

\* what a call left in ret: exc = TRUE when it raised, else the value returned,
\* under the name of what it is
Outcome(name, r) ==
    IF r.exc THEN [exc |-> TRUE]
    ELSE [k \in {"exc", name} |-> IF k = "exc" THEN FALSE ELSE r.val]

Init ==
    /\ InitCredentials \/ InitLayers \/ InitAccounts \/ InitAbsent
    /\ call = NoCall
    /\ ret = NoOutcome
    /\ service = NoService

----------------------------------------------------------------------------
(* The calls: each action runs one public function of accounts.py on the   *)
(* configuration and records what it returned.  The functions are pure and *)
(* keep no state, so a behaviour is one call on one configuration.         *)

GetMultiAccountConfig ==
    /\ call = NoCall
    /\ call' = [op |-> "get_multi_account_config", account_id |-> None]
    /\ ret' = Outcome("config", get_multi_account_config(character))
    /\ UNCHANGED <<character, settings, service>>

ListWhatsappAccountIds ==
    /\ call = NoCall
    /\ call' = [op |-> "list_whatsapp_account_ids", account_id |-> None]
    /\ ret' = Outcome("ids", list_whatsapp_account_ids(character, settings))
    /\ UNCHANGED <<character, settings, service>>

ResolveDefaultWhatsappAccountId ==
    /\ call = NoCall
    /\ call' = [op |-> "resolve_default_whatsapp_account_id", account_id |-> None]
    /\ ret' = Outcome("account_id", resolve_default_whatsapp_account_id(character, settings))
    /\ UNCHANGED <<character, settings, service>>

ResolveWhatsappToken ==
    \E id \in TokenIdArgs :
        /\ call = NoCall
        /\ call' = [op |-> "resolve_whatsapp_token", account_id |-> Some(id)]
        /\ ret' = Outcome("resolution", resolve_whatsapp_token(character, settings, id))
        /\ UNCHANGED <<character, settings, service>>

ResolveWhatsappAccount ==
    \E id \in AccountIdArgs :
        /\ call = NoCall
        /\ call' = [op |-> "resolve_whatsapp_account", account_id |-> id]
        /\ ret' = Outcome("account", resolve_whatsapp_account(character, settings, id))
        /\ UNCHANGED <<character, settings, service>>

ListEnabledWhatsappAccounts ==
    /\ call = NoCall
    /\ call' = [op |-> "list_enabled_whatsapp_accounts", account_id |-> None]
    /\ ret' = Outcome("accounts", list_enabled_whatsapp_accounts(character, settings))
    /\ UNCHANGED <<character, settings, service>>

IsMultiAccountEnabled ==
    /\ call = NoCall
    /\ call' = [op |-> "is_multi_account_enabled", account_id |-> None]
    /\ ret' = Outcome("multi", is_multi_account_enabled(character, settings))
    /\ UNCHANGED <<character, settings, service>>

Next ==
    \/ GetMultiAccountConfig
    \/ ListWhatsappAccountIds
    \/ ResolveDefaultWhatsappAccountId
    \/ ResolveWhatsappToken
    \/ ResolveWhatsappAccount
    \/ ListEnabledWhatsappAccounts
    \/ IsMultiAccountEnabled

Spec == Init /\ [][Next]_vars

----------------------------------------------------------------------------
(* The configuration layers as the claims name them, read from the raw     *)
(* character settings and the settings map                                 *)

\* character.settings.whatsapp as persisted, {} when absent at any level
WhatsappSection ==
    IF IsNone(character) THEN <<>>
    ELSE LET st == Get(character[1], "settings")
         IN  IF IsNone(st) THEN <<>>
             ELSE LET wa == Get(st[1], "whatsapp")
                  IN  IF IsNone(wa) THEN <<>> ELSE wa[1]

GlobalValue(f) == Get(WhatsappSection, f)

AccountsMap ==
    IF IsNone(GlobalValue("accounts")) THEN <<>> ELSE GlobalValue("accounts")[1]

\* an id up to case and surrounding whitespace, the empty id being "default"
CanonId(s) ==
    LET t == lower(strip(s)) IN IF t = <<>> THEN DEFAULT_ACCOUNT_ID ELSE t

\* the account's own entry: the entry under exactly this key, else the first
\* entry whose key is the same id up to case and whitespace, else nothing
OwnEntry(id) ==
    LET exact == {i \in 1..Len(AccountsMap) : AccountsMap[i].key = id}
        same  == {i \in 1..Len(AccountsMap) : CanonId(AccountsMap[i].key) = CanonId(id)}
    IN  IF exact # {} THEN AccountsMap[CHOOSE i \in exact : TRUE].value
        ELSE IF same # {}
        THEN AccountsMap[CHOOSE i \in same : \A j \in same : i <= j].value
        ELSE <<>>

OwnValue(id, f) == Get(OwnEntry(id), f)

EnvValue(f) ==
    IF f \in DOMAIN EnvKeyOf /\ EnvKeyOf[f] \in DOMAIN settings
    THEN Some(settings[EnvKeyOf[f]]) ELSE None

NonEmptyTrimmed(x) == ~IsNone(x) /\ strip(x[1]) # <<>>

Returned(op) == call.op = op /\ ~ret.exc

\* the id a resolve_whatsapp_account call is about
CallId == CanonId(IF IsNone(call.account_id) THEN <<>> ELSE call.account_id[1])

----------------------------------------------------------------------------
\* C1: resolve_whatsapp_token returns the first candidate that is non-empty
\* after trimming, in the order: the own entry's access token (source
\* config); for the id "default" only, the global access token (config);
\* for the id "default" only, WHATSAPP_ACCESS_TOKEN (env); else the empty
\* token with source none.  The token is returned trimmed, and a non-default
\* id never gets the global or the environment token.
TokenCandidates(id) ==
    <<[v |-> OwnValue(id, "accessToken"), source |-> SOURCE_CONFIG],
      [v |-> IF id = DEFAULT_ACCOUNT_ID THEN GlobalValue("accessToken") ELSE None,
       source |-> SOURCE_CONFIG],
      [v |-> IF id = DEFAULT_ACCOUNT_ID THEN EnvValue("accessToken") ELSE None,
       source |-> SOURCE_ENV]>>

ExpectedToken(id) ==
    LET c == TokenCandidates(id)
        usable == {i \in 1..3 : NonEmptyTrimmed(c[i].v)}
    IN  IF usable = {} THEN [token |-> <<>>, source |-> SOURCE_NONE]
        ELSE LET i == CHOOSE x \in usable : \A y \in usable : x <= y
             IN  [token |-> strip(c[i].v[1]), source |-> c[i].source]

C1_TokenPrecedence ==
    Returned("resolve_whatsapp_token") =>
        /\ ret.resolution = ExpectedToken(call.account_id[1])
        /\ ret.resolution.token = strip(ret.resolution.token)

\* the default account with an own entry and a global token that are blank:
\* the environment token is the one returned
C1_Witness ==
    /\ Returned("resolve_whatsapp_token")
    /\ call.account_id[1] = DEFAULT_ACCOUNT_ID
    /\ ~IsNone(OwnValue(DEFAULT_ACCOUNT_ID, "accessToken"))
    /\ ~IsNone(GlobalValue("accessToken"))
    /\ ret.resolution.source = SOURCE_ENV
    /\ ret.resolution.token # EnvValue("accessToken")[1]

----------------------------------------------------------------------------
\* settings maps a call is compared under: nothing set, the token, the phone
\* number id, both
AlternativeSettings ==
    {<<>>,
     [WHATSAPP_ACCESS_TOKEN |-> <<101>>],
     [WHATSAPP_PHONE_NUMBER_ID |-> <<50>>],
     [WHATSAPP_ACCESS_TOKEN |-> <<101>>, WHATSAPP_PHONE_NUMBER_ID |-> <<50>>]}

NamedAccountResolved == Returned("resolve_whatsapp_account") /\ CallId # DEFAULT_ACCOUNT_ID

\* C2 (as claimed): for a non-default account id, the access token, the phone
\* number id and the configured flag returned by resolve_whatsapp_account
\* are the same whatever the WHATSAPP_* settings are.
C2_NamedAccountIgnoresSettings ==
    NamedAccountResolved =>
        \A s2 \in AlternativeSettings :
            LET r2 == resolve_whatsapp_account(character, s2, call.account_id)
            IN  ~r2.exc =>
                    /\ r2.val.accessToken = ret.account.accessToken
                    /\ r2.val.phoneNumberId = ret.account.phoneNumberId
                    /\ r2.val.configured = ret.account.configured

\* C2 (amended): for a non-default account id, the access token and the token
\* source returned by resolve_whatsapp_account are the same whatever the
\* WHATSAPP_* settings are; the phone number id is not: when neither the
\* own entry nor the global layer gives one, it is the trimmed
\* WHATSAPP_PHONE_NUMBER_ID setting.
C2_NamedAccountTokenIgnoresSettings ==
    NamedAccountResolved =>
        /\ \A s2 \in AlternativeSettings :
              LET r2 == resolve_whatsapp_account(character, s2, call.account_id)
              IN  ~r2.exc =>
                      /\ r2.val.accessToken = ret.account.accessToken
                      /\ r2.val.tokenSource = ret.account.tokenSource
        /\ ( /\ IsNone(OwnValue(CallId, "phoneNumberId"))
             /\ IsNone(GlobalValue("phoneNumberId"))
             /\ ~IsNone(EnvValue("phoneNumberId")) )
           => ret.account.phoneNumberId = strip(EnvValue("phoneNumberId")[1])

\* a named account with its own token and no phone number id of its own or in
\* the global layer, configured through WHATSAPP_PHONE_NUMBER_ID
C2_Witness ==
    /\ NamedAccountResolved
    /\ IsNone(OwnValue(CallId, "phoneNumberId"))
    /\ IsNone(GlobalValue("phoneNumberId"))
    /\ ret.account.tokenSource = SOURCE_CONFIG
    /\ ret.account.configured
    /\ "WHATSAPP_ACCESS_TOKEN" \in DOMAIN settings

----------------------------------------------------------------------------
\* the recognised configuration keys of the global layer
GlobalKeys == AccountFields \ {"name"}

NonEmpty(x) == ~IsNone(x) /\ x[1] # <<>>

\* the value the three layers give key f of account id
ExpectedMergedValue(id, f) ==
    IF ~IsNone(OwnValue(id, f)) THEN OwnValue(id, f)
    ELSE IF f \in GlobalKeys /\ ~IsNone(GlobalValue(f)) THEN GlobalValue(f)
    ELSE IF NonEmpty(EnvValue(f)) THEN EnvValue(f)
    ELSE None

\* a merged value against a persisted one: group maps are compared record by
\* record, key by key (an absent key is a null one)
SameConfigValue(f, merged, raw) ==
    IF f = "groups"
    THEN /\ IsNone(merged) = IsNone(raw)
         /\ ~IsNone(raw) =>
               /\ DOMAIN merged[1] = DOMAIN raw[1]
               /\ \A g \in DOMAIN raw[1] : \A k \in GroupFields :
                     Get(merged[1][g], k) = Get(raw[1][g], k)
    ELSE merged = raw

\* C3: every field of the merged configuration is the own entry's value if
\* non-null, else the global layer's value if non-null, else the environment
\* value if non-empty (six backed fields), else null.
C3_MergedFieldByField ==
    Returned("resolve_whatsapp_account") =>
        \A f \in AccountFields :
            SameConfigValue(f, ret.account.config[f], ExpectedMergedValue(CallId, f))

\* C4: every recognised global key is inherited by an account whose own entry
\* leaves it unset, allowFrom and groupAllowFrom in particular.
C4_GlobalKeysInherited ==
    Returned("resolve_whatsapp_account") =>
        \A f \in GlobalKeys :
            (IsNone(OwnValue(CallId, f)) /\ ~IsNone(GlobalValue(f)))
                => SameConfigValue(f, ret.account.config[f], GlobalValue(f))

\* C5: get_multi_account_config, list_whatsapp_account_ids,
\* resolve_whatsapp_token and resolve_whatsapp_account return a value on
\* every configuration and all settings; none of them raises.
C5_NeverRaises ==
    call.op \in {"get_multi_account_config", "list_whatsapp_account_ids",
                 "resolve_whatsapp_token", "resolve_whatsapp_account"}
        => ~ret.exc

----------------------------------------------------------------------------
\* C6: the account returned by resolve_whatsapp_account is configured if
\* and only if its access token and its phone number id are both non-empty
\* after trimming, and both strings are returned trimmed.
C6_ConfiguredIffBoth ==
    Returned("resolve_whatsapp_account") =>
        /\ ret.account.configured <=>
              (strip(ret.account.accessToken) # <<>> /\ strip(ret.account.phoneNumberId) # <<>>)
        /\ ret.account.accessToken = strip(ret.account.accessToken)
        /\ ret.account.phoneNumberId = strip(ret.account.phoneNumberId)

\* a token is resolved and the only phone number id on offer is blank
C6_Witness ==
    /\ Returned("resolve_whatsapp_account")
    /\ ret.account.accessToken # <<>>
    /\ ~ret.account.configured
    /\ NonEmpty(ret.account.config.phoneNumberId)

----------------------------------------------------------------------------
\* C7: enabled is (the global enabled is not false) and (the own entry's
\* enabled is not false), absent counting as true.
C7_EnabledIsConjunction ==
    Returned("resolve_whatsapp_account") =>
        ret.account.enabled =
            (GlobalValue("enabled") # Some(FALSE) /\ OwnValue(CallId, "enabled") # Some(FALSE))

\* the own entry says enabled = true, the global layer enabled = false
C7_Witness ==
    /\ Returned("resolve_whatsapp_account")
    /\ OwnValue(CallId, "enabled") = Some(TRUE)
    /\ GlobalValue("enabled") = Some(FALSE)
    /\ ~ret.account.enabled

----------------------------------------------------------------------------
\* the accounts there are: the default account and every key of the accounts
\* map, as ids
CandidateIds ==
    {DEFAULT_ACCOUNT_ID} \cup
    {CanonId(AccountsMap[i].key) : i \in 1..Len(AccountsMap)}

\* the account resolves to enabled and configured
Usable(id) ==
    LET r == resolve_whatsapp_account(character, settings, Some(id))
    IN  ~r.exc /\ r.val.enabled /\ r.val.configured

\* C8: is_multi_account_enabled is true exactly when two or more distinct
\* accounts, among the default account and the keys of the accounts map,
\* resolve to enabled and configured.
C8_MultiIffTwoUsable ==
    Returned("is_multi_account_enabled") =>
        ret.multi = (Cardinality({id \in CandidateIds : Usable(id)}) >= 2)

----------------------------------------------------------------------------
Elements(seq) == {seq[i] : i \in 1..Len(seq)}

\* the keys of the accounts map that contribute an id (the empty key does not)
ContributingKeys ==
    {AccountsMap[i].key : i \in {j \in 1..Len(AccountsMap) : AccountsMap[j].key # <<>>}}

GlobalPairSet ==
    NonEmptyTrimmed(GlobalValue("accessToken")) /\ NonEmptyTrimmed(GlobalValue("phoneNumberId"))

EnvPairSet ==
    NonEmptyTrimmed(EnvValue("accessToken")) /\ NonEmptyTrimmed(EnvValue("phoneNumberId"))

ListedWithKeys == Returned("list_whatsapp_account_ids") /\ ContributingKeys # {}

\* C9 (as claimed): when the accounts map contributes an id, the list has
\* the default id if and only if the global token and phone number id are
\* both set or the environment token and phone number id are both set.
C9_DefaultIffPair ==
    ListedWithKeys =>
        (DEFAULT_ACCOUNT_ID \in Elements(ret.ids) <=> (GlobalPairSet \/ EnvPairSet))

\* C9 (amended): ... if and only if the global pair is set, or the
\* environment pair is set, or a non-empty key of the accounts map is
\* "default" up to case and surrounding whitespace (a blank key included).
C9_DefaultIffPairOrKey ==
    ListedWithKeys =>
        (DEFAULT_ACCOUNT_ID \in Elements(ret.ids) <=>
            \/ GlobalPairSet
            \/ EnvPairSet
            \/ \E k \in ContributingKeys : CanonId(k) = DEFAULT_ACCOUNT_ID)

\* the default id is listed because of a key of the map alone
C9_Witness ==
    /\ ListedWithKeys
    /\ ~GlobalPairSet
    /\ ~EnvPairSet
    /\ DEFAULT_ACCOUNT_ID \in Elements(ret.ids)
    /\ Len(ret.ids) > 1

----------------------------------------------------------------------------
\* C10: the list of list_whatsapp_account_ids is non-empty and strictly
\* ascending; every element is a normalised id (not empty, no surrounding
\* whitespace, no upper-case letter, a fixed point of normalize_account_id);
\* every contributing key is listed once, under its normalised id; with no
\* usable id the list is ["default"].
C10_SortedNormalisedIds ==
    Returned("list_whatsapp_account_ids") =>
        /\ ret.ids # <<>>
        /\ \A i \in 1..(Len(ret.ids) - 1) : StrLess(ret.ids[i], ret.ids[i + 1])
        /\ \A i \in 1..Len(ret.ids) :
              /\ ret.ids[i] # <<>>
              /\ ret.ids[i] = strip(ret.ids[i])
              /\ ret.ids[i] = lower(ret.ids[i])
              /\ normalize_account_id(Some(ret.ids[i])) = ret.ids[i]
        /\ \A k \in ContributingKeys :
              Cardinality({i \in 1..Len(ret.ids) : ret.ids[i] = CanonId(k)}) = 1
        /\ (ContributingKeys = {} /\ ~GlobalPairSet /\ ~EnvPairSet)
              => ret.ids = <<DEFAULT_ACCOUNT_ID>>

\* two keys of the map that differ by case and whitespace only, listed once
\* and before the default id
C10_Witness ==
    /\ Returned("list_whatsapp_account_ids")
    /\ Cardinality(ContributingKeys) > Cardinality({CanonId(k) : k \in ContributingKeys})
    /\ Len(ret.ids) = 2
    /\ ret.ids[2] = DEFAULT_ACCOUNT_ID

----------------------------------------------------------------------------
(* Allowlist management: is_whatsapp_user_allowed, is_whatsapp_group_allowed *)
(* These take the account and group configuration as arguments.  An entry  *)
(* of a list[str | int] is [t |-> "str", v |-> <the str>] or               *)
(* [t |-> "int", v |-> <the int>].                                         *)

StrEntry(s) == [t |-> "str", v |-> s]

IntEntry(n) == [t |-> "int", v |-> n]

\* the decimal digits of n >= 0
RECURSIVE digits(_)
digits(n) == IF n < 10 THEN <<48 + n>> ELSE digits(n \div 10) \o <<48 + (n % 10)>>

\* str(a) for a: str | int
str(a) ==
    IF a.t = "int"
    THEN IF a.v < 0 THEN <<45>> \o digits(0 - a.v) ELSE digits(a.v)
    ELSE a.v

\* any(str(a) == identifier for a in allow_from)
any_equal(allow_from, identifier) ==
    \E i \in 1..Len(allow_from) : str(allow_from[i]) = identifier

\* truthiness of list | None: neither None nor []
TruthyList(x) == ~IsNone(x) /\ x[1] # <<>>

\* `policy or default` for a Literal | None field
PolicyOr(policy, default) == IF Truthy(policy) THEN policy[1] ELSE default

\* is_whatsapp_user_allowed comparing the entries as they are, without str():
\* a numeric entry equals no identifier
is_whatsapp_user_allowed_RawCompare(identifier, account_config, is_group, group_config) ==
    IF is_group
    THEN LET policy == PolicyOr(account_config.groupPolicy, POLICY_ALLOWLIST)
         IN  IF policy = POLICY_DISABLED THEN FALSE
             ELSE IF policy = POLICY_OPEN THEN TRUE
             ELSE IF ~IsNone(group_config) /\ TruthyList(group_config[1].allowFrom)
             THEN \E i \in 1..Len(group_config[1].allowFrom[1]) :
                     /\ group_config[1].allowFrom[1][i].t = "str"
                     /\ group_config[1].allowFrom[1][i].v = identifier
             ELSE IF TruthyList(account_config.groupAllowFrom)
             THEN \E i \in 1..Len(account_config.groupAllowFrom[1]) :
                     /\ account_config.groupAllowFrom[1][i].t = "str"
                     /\ account_config.groupAllowFrom[1][i].v = identifier
             ELSE policy # POLICY_ALLOWLIST
    ELSE LET policy == PolicyOr(account_config.dmPolicy, POLICY_PAIRING)
         IN  IF policy = POLICY_DISABLED THEN FALSE
             ELSE IF policy = POLICY_OPEN THEN TRUE
             ELSE IF policy = POLICY_PAIRING THEN TRUE
             ELSE IF TruthyList(account_config.allowFrom)
             THEN \E i \in 1..Len(account_config.allowFrom[1]) :
                     /\ account_config.allowFrom[1][i].t = "str"
                     /\ account_config.allowFrom[1][i].v = identifier
             ELSE FALSE

is_whatsapp_user_allowed(identifier, account_config, is_group, group_config) ==
    IF is_group
    THEN LET policy == PolicyOr(account_config.groupPolicy, POLICY_ALLOWLIST)
         IN  IF policy = POLICY_DISABLED THEN FALSE
             ELSE IF policy = POLICY_OPEN THEN TRUE
             \* group-specific allowlist
             ELSE IF ~IsNone(group_config) /\ TruthyList(group_config[1].allowFrom)
             THEN any_equal(group_config[1].allowFrom[1], identifier)
             \* account-level group allowlist
             ELSE IF TruthyList(account_config.groupAllowFrom)
             THEN any_equal(account_config.groupAllowFrom[1], identifier)
             ELSE policy # POLICY_ALLOWLIST
    ELSE LET policy == PolicyOr(account_config.dmPolicy, POLICY_PAIRING)
         IN  IF policy = POLICY_DISABLED THEN FALSE
             ELSE IF policy = POLICY_OPEN THEN TRUE
             ELSE IF policy = POLICY_PAIRING THEN TRUE
             ELSE IF TruthyList(account_config.allowFrom)
             THEN any_equal(account_config.allowFrom[1], identifier)
             ELSE FALSE

\* is_whatsapp_group_allowed looking at the group config before the policy
is_whatsapp_group_allowed_GroupConfigFirst(group_id, account_config, group_config) ==
    LET policy == PolicyOr(account_config.groupPolicy, POLICY_ALLOWLIST)
    IN  IF ~IsNone(group_config) THEN group_config[1].enabled # Some(FALSE)
        ELSE IF policy = POLICY_DISABLED THEN FALSE
        ELSE IF policy = POLICY_OPEN THEN TRUE
        ELSE IF TruthyList(account_config.groupAllowFrom)
        THEN any_equal(account_config.groupAllowFrom[1], group_id)
        ELSE policy # POLICY_ALLOWLIST

\* is_whatsapp_group_allowed looking at the account-level allowlist before
\* the group config
is_whatsapp_group_allowed_AllowlistFirst(group_id, account_config, group_config) ==
    LET policy == PolicyOr(account_config.groupPolicy, POLICY_ALLOWLIST)
    IN  IF policy = POLICY_DISABLED THEN FALSE
        ELSE IF policy = POLICY_OPEN THEN TRUE
        ELSE IF TruthyList(account_config.groupAllowFrom)
        THEN any_equal(account_config.groupAllowFrom[1], group_id)
        ELSE IF ~IsNone(group_config) THEN group_config[1].enabled # Some(FALSE)
        ELSE policy # POLICY_ALLOWLIST

is_whatsapp_group_allowed(group_id, account_config, group_config) ==
    LET policy == PolicyOr(account_config.groupPolicy, POLICY_ALLOWLIST)
    IN  IF policy = POLICY_DISABLED THEN FALSE
        ELSE IF policy = POLICY_OPEN THEN TRUE
        \* group-specific config takes precedence
        ELSE IF ~IsNone(group_config) THEN group_config[1].enabled # Some(FALSE)
        \* account-level group allowlist
        ELSE IF TruthyList(account_config.groupAllowFrom)
        THEN any_equal(account_config.groupAllowFrom[1], group_id)
        ELSE policy # POLICY_ALLOWLIST

----------------------------------------------------------------------------
(* The inputs of the allowlist checks *)

\* "5", "12", "a"
Identifiers == {<<53>>, <<49, 50>>, <<97>>}

\* allowFrom of the account: unset, [], ["5"], [12, "a"]
DmAllowLists ==
    {None, Some(<<>>), Some(<<StrEntry(<<53>>)>>),
     Some(<<IntEntry(12), StrEntry(<<97>>)>>)}

\* groupAllowFrom of the account: unset, [], [5], ["a", "12"]
AccountGroupAllowLists ==
    {None, Some(<<>>), Some(<<IntEntry(5)>>),
     Some(<<StrEntry(<<97>>), StrEntry(<<49, 50>>)>>)}

\* allowFrom of the group: unset, [], ["a"], [5, 12]
GroupAllowLists ==
    {None, Some(<<>>), Some(<<StrEntry(<<97>>)>>),
     Some(<<IntEntry(5), IntEntry(12)>>)}

\* WhatsAppAccountRuntimeConfig(dmPolicy=..., groupPolicy=..., allowFrom=...,
\* groupAllowFrom=...), each keyword given or not
AccountConfigs ==
    {WhatsAppAccountRuntimeConfig(
         Present([dmPolicy |-> dm, groupPolicy |-> gp,
                  allowFrom |-> al, groupAllowFrom |-> gal])).val :
        dm \in {None} \cup {Some(x) : x \in DmPolicyLiteral},
        gp \in {None} \cup {Some(x) : x \in GroupPolicyLiteral},
        al \in DmAllowLists, gal \in AccountGroupAllowLists}

\* no group config, or WhatsAppGroupRuntimeConfig(enabled=..., allowFrom=...)
GroupConfigs ==
    {None} \cup
    {Some(WhatsAppGroupRuntimeConfig(Present([enabled |-> e, allowFrom |-> al]))) :
        e \in {None, Some(TRUE), Some(FALSE)}, al \in GroupAllowLists}

\* no character and no settings: the checks read their arguments only
InitPolicy ==
    /\ character = None
    /\ settings = <<>>
    /\ call = NoCall
    /\ ret = NoOutcome
    /\ service = NoService

IsWhatsappUserAllowed ==
    /\ call = NoCall
    /\ \E identifier \in Identifiers, account_config \in AccountConfigs,
          is_group \in BOOLEAN, group_config \in GroupConfigs :
        /\ call' = [op |-> "is_whatsapp_user_allowed", account_id |-> None,
                    identifier |-> identifier, account_config |-> account_config,
                    is_group |-> is_group, group_config |-> group_config]
        /\ ret' = Outcome("allowed",
                      Return(is_whatsapp_user_allowed(identifier, account_config,
                                                      is_group, group_config)))
        /\ UNCHANGED <<character, settings, service>>

IsWhatsappGroupAllowed ==
    /\ call = NoCall
    /\ \E group_id \in Identifiers, account_config \in AccountConfigs,
          group_config \in GroupConfigs :
        /\ call' = [op |-> "is_whatsapp_group_allowed", account_id |-> None,
                    group_id |-> group_id, account_config |-> account_config,
                    group_config |-> group_config]
        /\ ret' = Outcome("allowed",
                      Return(is_whatsapp_group_allowed(group_id, account_config,
                                                       group_config)))
        /\ UNCHANGED <<character, settings, service>>

NextPolicy ==
    \/ IsWhatsappUserAllowed
    \/ IsWhatsappGroupAllowed

SpecPolicy == InitPolicy /\ [][NextPolicy]_vars

----------------------------------------------------------------------------
(* The arguments of the allowlist checks, as the claims name them *)

\* the policy in effect: the configured one, else the default of the context
EffectivePolicy(policy, default) == IF IsNone(policy) THEN default ELSE policy[1]

\* the identifier is the string form of an entry of the list; no list, no member
Member(identifier, list) ==
    /\ ~IsNone(list)
    /\ \E i \in 1..Len(list[1]) : str(list[1][i]) = identifier

UserCheck(is_group) ==
    Returned("is_whatsapp_user_allowed") /\ call.is_group = is_group

GroupCheck == Returned("is_whatsapp_group_allowed")

\* C11: in direct-message context is_whatsapp_user_allowed is decided by
\* dmPolicy and the DM allowlist alone: disabled denies, open and pairing
\* allow, an unset policy is pairing, allowlist allows exactly the
\* identifiers that are the string form of an entry (none when the list is
\* absent or empty); the group policy, the group allowlists and the group
\* config do not change the result.
C11_DmPolicyDecides ==
    UserCheck(FALSE) =>
        LET policy == EffectivePolicy(call.account_config.dmPolicy, POLICY_PAIRING)
        IN  /\ ret.allowed =
                  CASE policy = POLICY_DISABLED -> FALSE
                    [] policy \in {POLICY_OPEN, POLICY_PAIRING} -> TRUE
                    [] OTHER -> Member(call.identifier, call.account_config.allowFrom)
            /\ \A other \in AccountConfigs, group_config \in GroupConfigs :
                  (/\ other.dmPolicy = call.account_config.dmPolicy
                   /\ other.allowFrom = call.account_config.allowFrom)
                  => is_whatsapp_user_allowed(call.identifier, other, FALSE,
                                              group_config) = ret.allowed

\* a numeric entry lets its decimal string in, under a disabled group policy
C11_Witness ==
    /\ UserCheck(FALSE)
    /\ call.account_config.dmPolicy = Some(POLICY_ALLOWLIST)
    /\ call.account_config.allowFrom = Some(<<IntEntry(12), StrEntry(<<97>>)>>)
    /\ call.identifier = <<49, 50>>
    /\ call.account_config.groupPolicy = Some(POLICY_DISABLED)
    /\ ret.allowed

\* C12: under groupPolicy open, is_whatsapp_user_allowed in group context and
\* is_whatsapp_group_allowed return true whatever the allowlists and the
\* group config; under groupPolicy disabled both return false.
C12_GroupPolicyShortCircuits ==
    (UserCheck(TRUE) \/ GroupCheck) =>
        /\ call.account_config.groupPolicy = Some(POLICY_OPEN) => ret.allowed
        /\ call.account_config.groupPolicy = Some(POLICY_DISABLED) => ~ret.allowed

\* open lets a group in although its config is disabled and no allowlist has it
C12_Witness ==
    /\ GroupCheck
    /\ call.account_config.groupPolicy = Some(POLICY_OPEN)
    /\ ~IsNone(call.group_config)
    /\ call.group_config[1].enabled = Some(FALSE)
    /\ ~Member(call.group_id, call.account_config.groupAllowFrom)
    /\ ret.allowed

\* C13: in group context under the effective policy allowlist,
\* is_whatsapp_user_allowed is membership in the group config's allowlist
\* whenever the group config has one set, else membership in the account's
\* group allowlist when that is set, else denied.
C13_GroupAllowlistOrder ==
    (/\ UserCheck(TRUE)
     /\ EffectivePolicy(call.account_config.groupPolicy, POLICY_ALLOWLIST)
            = POLICY_ALLOWLIST)
    => ret.allowed =
          IF ~IsNone(call.group_config) /\ ~IsNone(call.group_config[1].allowFrom)
          THEN Member(call.identifier, call.group_config[1].allowFrom)
          ELSE Member(call.identifier, call.account_config.groupAllowFrom)

\* C14: under the effective group policy allowlist, is_whatsapp_group_allowed
\* with a group config is true iff its enabled flag is not false, whatever
\* the account's group allowlist; without a group config it is membership of
\* the group id in the account's group allowlist, false when that is absent
\* or empty.
C14_GroupConfigOverAllowlist ==
    (/\ GroupCheck
     /\ EffectivePolicy(call.account_config.groupPolicy, POLICY_ALLOWLIST)
            = POLICY_ALLOWLIST)
    => ret.allowed =
          IF ~IsNone(call.group_config)
          THEN call.group_config[1].enabled # Some(FALSE)
          ELSE Member(call.group_id, call.account_config.groupAllowFrom)

\* a group config that is disabled keeps out a group the allowlist has
C14_Witness ==
    /\ GroupCheck
    /\ IsNone(call.account_config.groupPolicy)
    /\ ~IsNone(call.group_config)
    /\ call.group_config[1].enabled = Some(FALSE)
    /\ Member(call.group_id, call.account_config.groupAllowFrom)
    /\ ~ret.allowed

----------------------------------------------------------------------------
(* Group config resolution *)

\* dict.get(group_id) on dict | None, a falsy (absent or empty) dict giving None
GroupOf(groups, group_id) ==
    IF IsNone(groups) \/ DOMAIN groups[1] = {} THEN None
    ELSE IF group_id \in DOMAIN groups[1] THEN Some(groups[1][group_id])
    ELSE None

\* resolve_whatsapp_group_config filling the unset fields of the account's
\* record from the global record of the same group
resolve_whatsapp_group_config_Merged(multi_config, account_config, group_id) ==
    IF multi_config.exc \/ account_config.exc THEN Raise
    ELSE
    LET own == IF IsNone(account_config.val) THEN None
               ELSE GroupOf(account_config.val[1].groups, group_id)
        base == GroupOf(multi_config.val.groups, group_id)
    IN  IF ~IsNone(own) /\ ~IsNone(base)
        THEN Return(Some([f \in GroupFields |->
                             IF IsNone(own[1][f]) THEN base[1][f] ELSE own[1][f]]))
        ELSE IF ~IsNone(own) THEN Return(own)
        ELSE Return(base)

\* the body of resolve_whatsapp_group_config, given multi_config and
\* account_config: the account's groups first, then the base-level groups
resolve_whatsapp_group_config_body(multi_config, account_config, group_id) ==
    IF multi_config.exc \/ account_config.exc THEN Raise
    ELSE
    LET own == IF IsNone(account_config.val) THEN None
               ELSE GroupOf(account_config.val[1].groups, group_id)
        base == GroupOf(multi_config.val.groups, group_id)
    IN  IF ~IsNone(own) THEN Return(own)
        ELSE IF ~IsNone(base) THEN Return(base)
        ELSE Return(None)

resolve_whatsapp_group_config(ch, account_id, group_id) ==
    resolve_whatsapp_group_config_body(
        get_multi_account_config(ch), _get_account_config(ch, account_id), group_id)

----------------------------------------------------------------------------
(* The inputs of the group config resolution: group maps at the two levels *)

\* group ids "1", "2", "3"
GroupIds == {<<49>>, <<50>>, <<51>>}

\* account ids passed to resolve_whatsapp_group_config: "a", " A", "b", "default"
GroupAccountIdArgs == {<<97>>, <<32, 65>>, <<98>>, DEFAULT_ACCOUNT_ID}

\* groups of the account entry: unset, {}, {"1": {requireMention: true}},
\* {"1": {enabled: true}, "2": {allowFrom: ["5"]}}
AccountGroupMaps ==
    {None, Some(<<>>), Some(OneGroup),
     Some([g \in {<<49>>, <<50>>} |->
              IF g = <<49>> THEN [enabled |-> Some(TRUE)]
              ELSE [allowFrom |-> Some(<<StrEntry(<<53>>)>>)]])}

\* global groups: unset, {}, {"2": {enabled: false}},
\* {"1": {enabled: false, systemPrompt: "p"}, "2": {requireMention: true}}
GlobalGroupMaps ==
    {None, Some(<<>>), Some(OtherGroup),
     Some([g \in {<<49>>, <<50>>} |->
              IF g = <<49>>
              THEN [enabled |-> Some(FALSE), systemPrompt |-> Some(<<112>>)]
              ELSE [requireMention |-> Some(TRUE)]])}

\* no accounts map, or one entry under "a" or "A " with or without groups
GroupAccounts ==
    {None} \cup
    {Some(<<[key |-> k, value |-> Present([groups |-> g])]>>) :
        k \in {<<97>>, <<65, 32>>}, g \in AccountGroupMaps}

InitGroups ==
    /\ \E g \in GlobalGroupMaps, acc \in GroupAccounts :
          character = CharacterOf(Present([groups |-> g, accounts |-> acc]))
    /\ settings = <<>>
    /\ call = NoCall
    /\ ret = NoOutcome
    /\ service = NoService

ResolveWhatsappGroupConfig ==
    /\ call = NoCall
    /\ \E account_id \in GroupAccountIdArgs, group_id \in GroupIds :
        /\ call' = [op |-> "resolve_whatsapp_group_config",
                    account_id |-> Some(account_id), group_id |-> group_id]
        /\ ret' = Outcome("group",
                      resolve_whatsapp_group_config(character, account_id, group_id))
        /\ UNCHANGED <<character, settings, service>>

NextGroups == ResolveWhatsappGroupConfig

SpecGroups == InitGroups /\ [][NextGroups]_vars

----------------------------------------------------------------------------
\* the record of the group in a persisted group map, None when the map is
\* unset or has no such group
RawGroup(groups, group_id) ==
    IF IsNone(groups) THEN None
    ELSE IF group_id \in DOMAIN groups[1] THEN Some(groups[1][group_id])
    ELSE None

\* the returned record is this persisted record, field by field
SameGroupRecord(group, raw) ==
    /\ ~IsNone(group)
    /\ \A f \in GroupFields : group[1][f] = Get(raw, f)

\* C15: resolve_whatsapp_group_config returns the record of the group in the
\* account's own group map, unchanged, when that map has the group; else the
\* record in the global group map; else None.  The account is found by its
\* normalised id; no entry or no group map falls through to the global map.
C15_FirstHitNoMerge ==
    Returned("resolve_whatsapp_group_config") =>
        LET own  == RawGroup(OwnValue(call.account_id[1], "groups"), call.group_id)
            base == RawGroup(GlobalValue("groups"), call.group_id)
        IN  IF ~IsNone(own) THEN SameGroupRecord(ret.group, own[1])
            ELSE IF ~IsNone(base) THEN SameGroupRecord(ret.group, base[1])
            ELSE IsNone(ret.group)

\* both maps have the group, the account is found under another spelling of
\* its id, and the field only the global record sets stays unset
C15_Witness ==
    /\ Returned("resolve_whatsapp_group_config")
    /\ call.account_id = Some(<<32, 65>>)
    /\ ~IsNone(RawGroup(OwnValue(call.account_id[1], "groups"), call.group_id))
    /\ ~IsNone(RawGroup(GlobalValue("groups"), call.group_id))
    /\ ~IsNone(Get(RawGroup(GlobalValue("groups"), call.group_id)[1], "systemPrompt"))
    /\ ~IsNone(ret.group)
    /\ IsNone(ret.group[1].systemPrompt)

----------------------------------------------------------------------------
(* normalize.py: text chunking *)

\* default character limit of one text message
WHATSAPP_TEXT_CHUNK_LIMIT == 4096

\* a slice bound k on a str of length n: negative bounds count from the end
SliceIndex(k, n) ==
    IF k < 0 THEN (IF n + k < 0 THEN 0 ELSE n + k)
    ELSE (IF k > n THEN n ELSE k)

\* s[:k]
SliceTo(s, k) == SubSeq(s, 1, SliceIndex(k, Len(s)))

\* s[k:]
SliceFrom(s, k) == SubSeq(s, SliceIndex(k, Len(s)) + 1, Len(s))

\* s.rfind(sub): the highest 0-based index where sub occurs in s, else -1
rfind(s, sub) ==
    LET hits == {i \in 0..(Len(s) - Len(sub)) : SubSeq(s, i + 1, i + Len(sub)) = sub}
    IN  IF hits = {} THEN -1 ELSE CHOOSE i \in hits : \A j \in hits : j <= i

\* max(a, b, c)
max(a, b, c) ==
    IF a >= b /\ a >= c THEN a ELSE IF b >= c THEN b ELSE c

\* int(limit * 0.5): truncation towards zero
half_of(limit) == IF limit >= 0 THEN limit \div 2 ELSE 0 - ((0 - limit) \div 2)

\* _split_at_break_point with the hard break one character after the limit
_split_at_break_point_CutAfterLimit(text, limit) ==
    LET search_area == SliceTo(text, limit)
        half == half_of(limit)
        paragraph == rfind(search_area, <<10, 10>>)
        newline == rfind(search_area, <<10>>)
        sentence_end == max(rfind(search_area, <<46, 32>>),
                            rfind(search_area, <<33, 32>>),
                            rfind(search_area, <<63, 32>>))
        space == rfind(search_area, <<32>>)
    IN  IF Len(text) <= limit THEN <<text, <<>>>>
        \* paragraph breaks
        ELSE IF paragraph > half
        THEN <<rstrip(SliceTo(text, paragraph)), lstrip(SliceFrom(text, paragraph + 2))>>
        \* single newlines
        ELSE IF newline > half
        THEN <<rstrip(SliceTo(text, newline)), lstrip(SliceFrom(text, newline + 1))>>
        \* sentence boundaries
        ELSE IF sentence_end > half
        THEN <<rstrip(SliceTo(text, sentence_end + 1)),
               lstrip(SliceFrom(text, sentence_end + 2))>>
        \* word boundaries
        ELSE IF space > half
        THEN <<rstrip(SliceTo(text, space)), lstrip(SliceFrom(text, space + 1))>>
        \* hard break
        ELSE <<SliceTo(text, limit + 1), SliceFrom(text, limit + 1)>>

\* _split_at_break_point cutting before the sentence terminator and resuming
\* after the space: the terminator is lost
_split_at_break_point_DropsTerminator(text, limit) ==
    LET search_area == SliceTo(text, limit)
        half == half_of(limit)
        paragraph == rfind(search_area, <<10, 10>>)
        newline == rfind(search_area, <<10>>)
        sentence_end == max(rfind(search_area, <<46, 32>>),
                            rfind(search_area, <<33, 32>>),
                            rfind(search_area, <<63, 32>>))
        space == rfind(search_area, <<32>>)
    IN  IF Len(text) <= limit THEN <<text, <<>>>>
        \* paragraph breaks
        ELSE IF paragraph > half
        THEN <<rstrip(SliceTo(text, paragraph)), lstrip(SliceFrom(text, paragraph + 2))>>
        \* single newlines
        ELSE IF newline > half
        THEN <<rstrip(SliceTo(text, newline)), lstrip(SliceFrom(text, newline + 1))>>
        \* sentence boundaries
        ELSE IF sentence_end > half
        THEN <<rstrip(SliceTo(text, sentence_end)),
               lstrip(SliceFrom(text, sentence_end + 2))>>
        \* word boundaries
        ELSE IF space > half
        THEN <<rstrip(SliceTo(text, space)), lstrip(SliceFrom(text, space + 1))>>
        \* hard break
        ELSE <<SliceTo(text, limit), SliceFrom(text, limit)>>

\* _split_at_break_point, as <<chunk, remainder>>
_split_at_break_point(text, limit) ==
    LET search_area == SliceTo(text, limit)
        half == half_of(limit)
        paragraph == rfind(search_area, <<10, 10>>)
        newline == rfind(search_area, <<10>>)
        sentence_end == max(rfind(search_area, <<46, 32>>),
                            rfind(search_area, <<33, 32>>),
                            rfind(search_area, <<63, 32>>))
        space == rfind(search_area, <<32>>)
    IN  IF Len(text) <= limit THEN <<text, <<>>>>
        \* paragraph breaks
        ELSE IF paragraph > half
        THEN <<rstrip(SliceTo(text, paragraph)), lstrip(SliceFrom(text, paragraph + 2))>>
        \* single newlines
        ELSE IF newline > half
        THEN <<rstrip(SliceTo(text, newline)), lstrip(SliceFrom(text, newline + 1))>>
        \* sentence boundaries
        ELSE IF sentence_end > half
        THEN <<rstrip(SliceTo(text, sentence_end + 1)),
               lstrip(SliceFrom(text, sentence_end + 2))>>
        \* word boundaries
        ELSE IF space > half
        THEN <<rstrip(SliceTo(text, space)), lstrip(SliceFrom(text, space + 1))>>
        \* hard break
        ELSE <<SliceTo(text, limit), SliceFrom(text, limit)>>

\* [c for c in chunks if c]
NonEmptyChunks(chunks) == SelectSeq(chunks, LAMBDA c : c # <<>>)

----------------------------------------------------------------------------
(* The inputs of chunk_whatsapp_text *)

\* longest text
MaxLen == 6

\* largest limit
MaxLimit == 5

\* "a", " ", "\n", "."
Alphabet == {97, 32, 10, 46}

Texts == UNION {[1..n -> Alphabet] : n \in 0..MaxLen}

\* limit: not given, or an int from -1 up
Limits == {None} \cup {Some(n) : n \in -1..MaxLimit}

\* the call in progress: its arguments, its position (pc) and its locals
ChunkFrame(text, limit, pc, remaining, chunks) ==
    [op |-> "chunk_whatsapp_text", account_id |-> None,
     text |-> text, limit |-> limit, pc |-> pc,
     remaining |-> remaining, chunks |-> chunks]

effective_limit(limit) == IF IsNone(limit) THEN WHATSAPP_TEXT_CHUNK_LIMIT ELSE limit[1]

InitChunk ==
    /\ character = None
    /\ settings = <<>>
    /\ call = NoCall
    /\ ret = NoOutcome
    /\ service = NoService

\* the call up to the loop: the two early returns, or the loop's first test
ChunkWhatsappText ==
    /\ call = NoCall
    /\ \E text \in Texts, limit \in Limits :
        LET normalized_text == strip(text)
        IN  IF normalized_text = <<>>
            THEN /\ call' = ChunkFrame(text, limit, "done", <<>>, <<>>)
                 /\ ret' = Outcome("chunks", Return(<<>>))
            ELSE IF Len(normalized_text) <= effective_limit(limit)
            THEN /\ call' = ChunkFrame(text, limit, "done", <<>>, <<>>)
                 /\ ret' = Outcome("chunks", Return(<<normalized_text>>))
            ELSE /\ call' = ChunkFrame(text, limit, "while", normalized_text, <<>>)
                 /\ ret' = ret
    /\ UNCHANGED <<character, settings, service>>

\* `while remaining:` and, when it fails, the return
ChunkWhile ==
    /\ call.op = "chunk_whatsapp_text"
    /\ call.pc = "while"
    /\ IF call.remaining # <<>>
       THEN /\ call' = [call EXCEPT !.pc = "split"]
            /\ ret' = ret
       ELSE /\ call' = [call EXCEPT !.pc = "done"]
            /\ ret' = Outcome("chunks", Return(NonEmptyChunks(call.chunks)))
    /\ UNCHANGED <<character, settings, service>>

\* the loop body: split, and keep the chunk when it is not empty
ChunkSplit ==
    /\ call.op = "chunk_whatsapp_text"
    /\ call.pc = "split"
    /\ LET split == _split_at_break_point(call.remaining, effective_limit(call.limit))
       IN  call' = [call EXCEPT
                       !.pc = "while",
                       !.remaining = split[2],
                       !.chunks = IF split[1] # <<>> THEN Append(@, split[1]) ELSE @]
    /\ UNCHANGED <<character, settings, service, ret>>

NextChunk ==
    \/ ChunkWhatsappText
    \/ ChunkWhile
    \/ ChunkSplit

SpecChunk == InitChunk /\ [][NextChunk]_vars

----------------------------------------------------------------------------
\* chunk_whatsapp_text has returned, with a limit of at least 1
ChunkReturned == call.op = "chunk_whatsapp_text" /\ call.pc = "done"

ChunkedWithin == ChunkReturned /\ effective_limit(call.limit) >= 1

\* space, tab or newline
IsBlank(c) == c \in {32, 9, 10}

\* the text with its whitespace deleted
Unspaced(s) == SelectSeq(s, LAMBDA c : ~IsSpace(c))

RECURSIVE Concat(_)
Concat(chunks) == IF chunks = <<>> THEN <<>> ELSE Head(chunks) \o Concat(Tail(chunks))

\* C16: chunk_whatsapp_text terminates for every text and every integer
\* limit, because every iteration of its loop (the split of the remaining
\* text) leaves a strictly shorter remaining text.
C16_EveryIterationShortens ==
    [][(call.op = "chunk_whatsapp_text" /\ call.pc = "split")
           => Len(call'.remaining) < Len(call.remaining)]_vars

\* C17: for every text and every limit >= 1, each chunk returned has a length
\* between 1 and the limit.
C17_ChunkLengthWithinLimit ==
    ChunkedWithin =>
        \A i \in 1..Len(ret.chunks) :
            /\ Len(ret.chunks[i]) >= 1
            /\ Len(ret.chunks[i]) <= effective_limit(call.limit)

\* several chunks, one of them as long as the limit and one shorter
C17_Witness ==
    /\ ChunkedWithin
    /\ Len(ret.chunks) >= 2
    /\ \E i \in 1..Len(ret.chunks) : Len(ret.chunks[i]) = effective_limit(call.limit)
    /\ \E i \in 1..Len(ret.chunks) : Len(ret.chunks[i]) < effective_limit(call.limit)
    /\ effective_limit(call.limit) >= 3

\* C18: for every text and every limit >= 1, each chunk returned neither
\* starts nor ends with a space, tab or newline.
C18_ChunksTrimmed ==
    ChunkedWithin =>
        \A i \in 1..Len(ret.chunks) :
            /\ ret.chunks[i] # <<>> => ~IsBlank(ret.chunks[i][1])
            /\ ret.chunks[i] # <<>> => ~IsBlank(ret.chunks[i][Len(ret.chunks[i])])

\* C19: for every text and every limit >= 1, the chunks concatenated in order,
\* whitespace deleted, are the text with its whitespace deleted; and the list
\* is empty exactly when the text is empty or whitespace only.
C19_LosslessUpToWhitespace ==
    ChunkedWithin =>
        /\ Unspaced(Concat(ret.chunks)) = Unspaced(call.text)
        /\ (ret.chunks = <<>>) <=> (Unspaced(call.text) = <<>>)

\* whitespace is dropped at a split and kept inside a chunk
C19_Witness ==
    /\ ChunkedWithin
    /\ Len(ret.chunks) >= 2
    /\ Len(Concat(ret.chunks)) < Len(strip(call.text))
    /\ Concat(ret.chunks) # Unspaced(call.text)

----------------------------------------------------------------------------
(* normalize.py: E.164 and JID normalization *)

\* "whatsapp:", "@g.us", "@s.whatsapp.net", "@lid"
WHATSAPP_PREFIX == <<119, 104, 97, 116, 115, 97, 112, 112, 58>>

GROUP_DOMAIN == <<64, 103, 46, 117, 115>>

USER_DOMAIN == <<64, 115, 46, 119, 104, 97, 116, 115, 97, 112, 112, 46, 110, 101, 116>>

LID_DOMAIN == <<64, 108, 105, 100>>

\* \d, for the ASCII digits
IsDigit(c) == c \in 48..57

\* \d+ over the whole of s
IsDigits(s) == s # <<>> /\ \A i \in 1..Len(s) : IsDigit(s[i])

startswith(s, prefix) ==
    Len(s) >= Len(prefix) /\ SubSeq(s, 1, Len(prefix)) = prefix

endswith(s, suffix) ==
    Len(s) >= Len(suffix) /\ SubSeq(s, Len(s) - Len(suffix) + 1, Len(s)) = suffix

\* "@" in s
ContainsAt(s) == \E i \in 1..Len(s) : s[i] = 64

\* what `$` lets a pattern end at: the end of s, or just before a newline
\* that ends s
DollarEnds(s) ==
    {s} \cup (IF s # <<>> /\ s[Len(s)] = 10 THEN {SubSeq(s, 1, Len(s) - 1)} ELSE {})

\* _strip_whatsapp_target_prefixes: strip, then drop a leading "whatsapp:"
\* (in any case) and strip again, until nothing changes
RECURSIVE _strip_whatsapp_target_prefixes(_)
_strip_whatsapp_target_prefixes(value) ==
    LET candidate == strip(value)
    IN  IF startswith(lower(candidate), WHATSAPP_PREFIX)
        THEN _strip_whatsapp_target_prefixes(
                 SubSeq(candidate, Len(WHATSAPP_PREFIX) + 1, Len(candidate)))
        ELSE candidate

\* normalize_e164 prefixing from nine characters on
normalize_e164_PrefixFromNine(input_) ==
    LET digits_only == SelectSeq(input_, LAMBDA c : IsDigit(c) \/ c = 43)
    IN  IF digits_only = <<>> THEN <<>>
        ELSE IF startswith(digits_only, <<43>>) THEN digits_only
        ELSE IF startswith(digits_only, <<48, 48>>)
        THEN <<43>> \o SubSeq(digits_only, 3, Len(digits_only))
        ELSE IF Len(digits_only) >= 9 THEN <<43>> \o digits_only
        ELSE digits_only

\* normalize_e164 prefixing a long number that already starts with "+"
normalize_e164_PrefixTwice(input_) ==
    LET digits_only == SelectSeq(input_, LAMBDA c : IsDigit(c) \/ c = 43)
    IN  IF digits_only = <<>> THEN <<>>
        ELSE IF startswith(digits_only, <<48, 48>>)
        THEN <<43>> \o SubSeq(digits_only, 3, Len(digits_only))
        ELSE IF Len(digits_only) >= 10 THEN <<43>> \o digits_only
        ELSE digits_only

\* normalize_e164: only digits and "+" survive the two substitutions
normalize_e164(input_) ==
    LET digits_only == SelectSeq(input_, LAMBDA c : IsDigit(c) \/ c = 43)
    IN  IF digits_only = <<>> THEN <<>>
        ELSE IF startswith(digits_only, <<43>>) THEN digits_only
        ELSE IF startswith(digits_only, <<48, 48>>)
        THEN <<43>> \o SubSeq(digits_only, 3, Len(digits_only))
        ELSE IF Len(digits_only) >= 10 THEN <<43>> \o digits_only
        ELSE digits_only

\* _GROUP_LOCAL_RE.match: ^[0-9]+(-[0-9]+)*$
GroupLocalMatch(local_part) ==
    \E t \in DollarEnds(local_part) :
        /\ t # <<>>
        /\ \A i \in 1..Len(t) : IsDigit(t[i]) \/ t[i] = 45
        /\ IsDigit(t[1])
        /\ IsDigit(t[Len(t)])
        /\ \A i \in 1..(Len(t) - 1) : ~(t[i] = 45 /\ t[i + 1] = 45)

is_whatsapp_group_jid(value) ==
    LET candidate == _strip_whatsapp_target_prefixes(value)
        local_part == SubSeq(candidate, 1, Len(candidate) - Len(GROUP_DOMAIN))
    IN  /\ endswith(lower(candidate), GROUP_DOMAIN)
        /\ local_part # <<>>
        /\ ~ContainsAt(local_part)
        /\ GroupLocalMatch(local_part)

\* the group (\d+) of  ^(\d+)(?::\d+)?  when head is all of it, else None
UserLocalMatch(head, device) ==
    IF IsDigits(head) THEN Some(head)
    ELSE IF device /\ \E i \in 1..Len(head) :
                          /\ head[i] = 58
                          /\ IsDigits(SubSeq(head, 1, i - 1))
                          /\ IsDigits(SubSeq(head, i + 1, Len(head)))
    THEN Some(SubSeq(head, 1, (CHOOSE i \in 1..Len(head) : head[i] = 58) - 1))
    ELSE None

\* a match of ^(\d+)<device>@<domain>$ (the domain in any case) on jid: its
\* group 1, else None
JidMatch(jid, domain, device) ==
    LET hits == {t \in DollarEnds(jid) :
                    /\ endswith(lower(t), domain)
                    /\ ~IsNone(UserLocalMatch(
                           SubSeq(t, 1, Len(t) - Len(domain)), device))}
    IN  IF hits = {} THEN None
        ELSE LET t == CHOOSE h \in hits : TRUE
             IN  UserLocalMatch(SubSeq(t, 1, Len(t) - Len(domain)), device)

\* _WHATSAPP_USER_JID_RE.match, _WHATSAPP_LID_RE.match
_WHATSAPP_USER_JID_RE(jid) == JidMatch(jid, USER_DOMAIN, TRUE)

_WHATSAPP_LID_RE(jid) == JidMatch(jid, LID_DOMAIN, FALSE)

is_whatsapp_user_target(value) ==
    LET candidate == _strip_whatsapp_target_prefixes(value)
    IN  ~IsNone(_WHATSAPP_USER_JID_RE(candidate)) \/ ~IsNone(_WHATSAPP_LID_RE(candidate))

_extract_user_jid_phone(jid) ==
    IF ~IsNone(_WHATSAPP_USER_JID_RE(jid)) THEN _WHATSAPP_USER_JID_RE(jid)
    ELSE _WHATSAPP_LID_RE(jid)

\* `normalized if len(normalized) > 1 else None`
LongerThanOne(normalized) == IF Len(normalized) > 1 THEN Some(normalized) ELSE None

\* the body of normalize_whatsapp_target, given candidate
normalize_whatsapp_target_body(candidate) ==
    IF candidate = <<>> THEN None
    \* group JIDs
    ELSE IF is_whatsapp_group_jid(candidate)
    THEN Some(SubSeq(candidate, 1, Len(candidate) - Len(GROUP_DOMAIN)) \o GROUP_DOMAIN)
    \* user JIDs / LIDs
    ELSE IF is_whatsapp_user_target(candidate)
    THEN LET phone == _extract_user_jid_phone(candidate)
         IN  IF IsNone(phone) THEN None ELSE LongerThanOne(normalize_e164(phone[1]))
    \* unknown JID-ish string
    ELSE IF ContainsAt(candidate) THEN None
    \* plain phone number
    ELSE LongerThanOne(normalize_e164(candidate))

normalize_whatsapp_target(value) ==
    normalize_whatsapp_target_body(_strip_whatsapp_target_prefixes(value))

\* str.lstrip("+")
RECURSIVE lstrip_plus(_)
lstrip_plus(s) == IF s # <<>> /\ Head(s) = 43 THEN lstrip_plus(Tail(s)) ELSE s

\* re.fullmatch(r"\d{10,15}", digits)
FullMatchDigits10To15(s) == IsDigits(s) /\ Len(s) \in 10..15

\* the body of is_valid_whatsapp_number, given normalized
is_valid_whatsapp_number_body(normalized) ==
    IF ~Truthy(normalized) THEN FALSE
    ELSE IF ~startswith(normalized[1], <<43>>) THEN FALSE
    ELSE FullMatchDigits10To15(lstrip_plus(normalized[1]))

is_valid_whatsapp_number(value) ==
    is_valid_whatsapp_number_body(normalize_whatsapp_target(value))

----------------------------------------------------------------------------
(* The inputs of the target normalization: a prefix, a local part of up to *)
(* MaxLocal characters and a domain                                        *)

\* longest local part
MaxLocal == 3

\* "1", "0", "-", ":", "@", "+", "a", "\n", " "
TargetAlphabet == {49, 48, 45, 58, 64, 43, 97, 10, 32}

LocalParts == UNION {[1..n -> TargetAlphabet] : n \in 0..MaxLocal}

\* "", "whatsapp:", " WhatsApp: whatsapp:"
TargetPrefixes ==
    {<<>>, WHATSAPP_PREFIX, <<32, 87, 104, 97, 116, 115, 65, 112, 112, 58, 32, 119, 104, 97, 116, 115, 97, 112, 112, 58>>}

\* "", "@g.us", "@G.us", "@s.whatsapp.net", "@lid", "@x.us"
TargetDomains ==
    {<<>>, GROUP_DOMAIN, <<64, 71, 46, 117, 115>>, USER_DOMAIN, LID_DOMAIN, <<64, 120, 46, 117, 115>>}

\* most digits of a number
MaxDigits == 16

\* "", "+", "++", "whatsapp:+"
NumberPrefixes == {<<>>, <<43>>, <<43, 43>>, WHATSAPP_PREFIX \o <<43>>}

\* "", "00", "0", "(1) 1-"
NumberHeads == {<<>>, <<48, 48>>, <<48>>, <<40, 49, 41, 32, 49, 45>>}

\* "1" n times
Ones(n) == [i \in 1..n |-> 49]

\* "", "+", "a", "\n", ":0@s.whatsapp.net", "@S.WhatsApp.Net", "@lid", "@g.us"
NumberTails ==
    {<<>>, <<43>>, <<97>>, <<10>>, <<58, 48>> \o USER_DOMAIN,
     <<64, 83, 46, 87, 104, 97, 116, 115, 65, 112, 112, 46, 78, 101, 116>>,
     LID_DOMAIN, GROUP_DOMAIN}

\* phone numbers of up to MaxDigits digits after their head, bare or as JIDs
Numbers ==
    {p \o h \o Ones(n) \o t : p \in NumberPrefixes, h \in NumberHeads,
                              n \in 0..MaxDigits, t \in NumberTails}

Targets ==
    {p \o l \o d : p \in TargetPrefixes, l \in LocalParts, d \in TargetDomains}
        \cup Numbers

InitNormalize ==
    /\ character = None
    /\ settings = <<>>
    /\ call = NoCall
    /\ ret = NoOutcome
    /\ service = NoService

NormalizeWhatsappTarget ==
    /\ call = NoCall
    /\ \E value \in Targets :
        /\ call' = [op |-> "normalize_whatsapp_target", account_id |-> None,
                    value |-> value]
        /\ ret' = Outcome("target", Return(normalize_whatsapp_target(value)))
    /\ UNCHANGED <<character, settings, service>>

NormalizeE164 ==
    /\ call = NoCall
    /\ \E input_ \in Targets :
        /\ call' = [op |-> "normalize_e164", account_id |-> None, value |-> input_]
        /\ ret' = Outcome("normalized", Return(normalize_e164(input_)))
    /\ UNCHANGED <<character, settings, service>>

IsValidWhatsappNumber ==
    /\ call = NoCall
    /\ \E value \in Targets :
        /\ call' = [op |-> "is_valid_whatsapp_number", account_id |-> None,
                    value |-> value]
        /\ ret' = Outcome("valid", Return(is_valid_whatsapp_number(value)))
    /\ UNCHANGED <<character, settings, service>>

IsWhatsappGroupJid ==
    /\ call = NoCall
    /\ \E value \in Targets :
        /\ call' = [op |-> "is_whatsapp_group_jid", account_id |-> None,
                    value |-> value]
        /\ ret' = Outcome("is_group", Return(is_whatsapp_group_jid(value)))
    /\ UNCHANGED <<character, settings, service>>

NextNormalize ==
    \/ NormalizeWhatsappTarget
    \/ NormalizeE164
    \/ IsValidWhatsappNumber
    \/ IsWhatsappGroupJid

SpecNormalize == InitNormalize /\ [][NextNormalize]_vars

----------------------------------------------------------------------------
\* one or more non-empty digit runs separated by single sep characters
DigitRuns(t, sep) ==
    /\ t # <<>>
    /\ \A i \in 1..Len(t) : IsDigit(t[i]) \/ t[i] = sep
    /\ IsDigit(t[1])
    /\ IsDigit(t[Len(t)])
    /\ \A i \in 1..(Len(t) - 1) : ~(t[i] = sep /\ t[i + 1] = sep)

\* c is <local><domain>, the domain in any case
LocalOf(c, domain) == SubSeq(c, 1, Len(c) - Len(domain))

\* digits(-digits)*@g.us
GroupPattern(c) ==
    endswith(lower(c), GROUP_DOMAIN) /\ DigitRuns(LocalOf(c, GROUP_DOMAIN), 45)

\* digits(:digits)?@s.whatsapp.net
UserPattern(c) ==
    /\ endswith(lower(c), USER_DOMAIN)
    /\ DigitRuns(LocalOf(c, USER_DOMAIN), 58)
    /\ Cardinality({i \in 1..Len(LocalOf(c, USER_DOMAIN)) :
                       LocalOf(c, USER_DOMAIN)[i] = 58}) <= 1

\* digits@lid
LidPattern(c) == endswith(lower(c), LID_DOMAIN) /\ IsDigits(LocalOf(c, LID_DOMAIN))

\* the value of the call, its "whatsapp:" prefixes stripped
CallCandidate == _strip_whatsapp_target_prefixes(call.value)

\* C20: normalize_whatsapp_target returns None for every input that, its
\* "whatsapp:" prefixes stripped, contains "@" and matches none of the group,
\* user and LID patterns.
C20_UnknownJidIsNone ==
    (/\ Returned("normalize_whatsapp_target")
     /\ ContainsAt(CallCandidate)
     /\ ~GroupPattern(CallCandidate)
     /\ ~UserPattern(CallCandidate)
     /\ ~LidPattern(CallCandidate))
    => IsNone(ret.target)

\* some character of s is a digit
HasDigit(s) == \E i \in 1..Len(s) : IsDigit(s[i])

\* C21: a result of normalize_whatsapp_target that is not None and not a
\* group JID contains at least one digit.
C21_ResultHasDigit ==
    (/\ Returned("normalize_whatsapp_target")
     /\ ~IsNone(ret.target)
     /\ ~endswith(ret.target[1], GROUP_DOMAIN))
    => HasDigit(ret.target[1])

\* E.164 form: one "+" and then 10 to 15 digits, nothing else
IsE164(s) == s # <<>> /\ Head(s) = 43 /\ IsDigits(Tail(s)) /\ Len(Tail(s)) \in 10..15

\* C22: is_valid_whatsapp_number(value) is true exactly when
\* normalize_whatsapp_target(value) is not None and is in E.164 form.
C22_ValidIffE164 ==
    Returned("is_valid_whatsapp_number") =>
        (ret.valid <=>
            /\ ~IsNone(normalize_whatsapp_target(call.value))
            /\ IsE164(normalize_whatsapp_target(call.value)[1]))

\* "+" in s
ContainsPlus(s) == \E i \in 1..Len(s) : s[i] = 43

\* the digits of s, in order
DigitsOf(s) == SelectSeq(s, IsDigit)

\* the input of a normalize_e164 call has no "+" and fewer than 10 digits
ShortUnsigned ==
    /\ Returned("normalize_e164")
    /\ ~ContainsPlus(call.value)
    /\ Len(DigitsOf(call.value)) < 10

\* C23 as stated: for every input with no "+" and fewer than 10 digits the
\* result of normalize_e164 contains no "+".
C23_ShortNeverPrefixed == ShortUnsigned => ~ContainsPlus(ret.normalized)

\* C23: for every input with no "+" and fewer than 10 digits, the result of
\* normalize_e164 is the digits of the input, with no "+", unless the digits
\* begin with "00": then the "00" is replaced by "+".
C23_ShortNeverPrefixedUnless00 ==
    ShortUnsigned =>
        IF startswith(DigitsOf(call.value), <<48, 48>>)
        THEN ret.normalized = <<43>> \o SubSeq(DigitsOf(call.value), 3, Len(DigitsOf(call.value)))
        ELSE ret.normalized = DigitsOf(call.value)

\* nine digits among other characters come back as the nine digits
C23_Witness ==
    /\ ShortUnsigned
    /\ Len(DigitsOf(call.value)) = 9
    /\ Len(call.value) > 9
    /\ ~startswith(DigitsOf(call.value), <<48, 48>>)
    /\ ret.normalized = DigitsOf(call.value)

\* C24: normalize_e164 returns "" for every input that contains no digit.
C24_NoDigitIsEmpty ==
    (Returned("normalize_e164") /\ ~HasDigit(call.value)) => ret.normalized = <<>>

\* C25: is_whatsapp_group_jid(value) is true exactly when value, its
\* "whatsapp:" prefixes and surrounding whitespace stripped, is one or more
\* non-empty digit runs separated by single dashes followed by "@g.us" in any
\* case.
C25_GroupJidIffPattern ==
    Returned("is_whatsapp_group_jid") => (ret.is_group <=> GroupPattern(CallCandidate))

----------------------------------------------------------------------------
(* normalize_account_id called directly, with an argument of any type: None, *)
(* a str or an int (the annotation is not enforced at run time)             *)

\* `not account_id` is true of 0; any other int reaches account_id.strip(),
\* which an int does not have (AttributeError)
normalize_account_id_untyped(account_id) ==
    IF IsNone(account_id) THEN Return(normalize_account_id(None))
    ELSE IF account_id[1].t = "int"
    THEN IF account_id[1].v = 0 THEN Return(DEFAULT_ACCOUNT_ID) ELSE Raise
    ELSE Return(normalize_account_id(Some(account_id[1].v)))

\* longest account id
MaxIdLen == 3

\* " ", "\n", "A", "a", "b"
IdAlphabet == {32, 10, 65, 97, 98}

\* "default", "DEFAULT", " Default ", "default\n", "defaults", "de fault"
DefaultSpellings ==
    {DEFAULT_ACCOUNT_ID, <<68, 69, 70, 65, 85, 76, 84>>,
     <<32, 68, 101, 102, 97, 117, 108, 116, 32>>, DEFAULT_ACCOUNT_ID \o <<10>>,
     DEFAULT_ACCOUNT_ID \o <<115>>, <<100, 101, 32, 102, 97, 117, 108, 116>>}

IdStrings == UNION {[1..n -> IdAlphabet] : n \in 0..MaxIdLen} \cup DefaultSpellings

IdNumbers == {0, 1, -1, 123}

\* None or a str
IdStrArgs == {None} \cup {Some(StrEntry(x)) : x \in IdStrings}

\* an int
IdIntArgs == {Some(IntEntry(n)) : n \in IdNumbers}

InitAccountId ==
    /\ character = None
    /\ settings = <<>>
    /\ call = NoCall
    /\ ret = NoOutcome
    /\ service = NoService

NormalizeAccountId ==
    /\ call = NoCall
    /\ \/ \E account_id \in IdStrArgs :
            /\ call' = [op |-> "normalize_account_id", account_id |-> account_id]
            /\ ret' = Outcome("id", normalize_account_id_untyped(account_id))
       \/ \E account_id \in IdIntArgs :
            /\ call' = [op |-> "normalize_account_id", account_id |-> account_id]
            /\ ret' = Outcome("id", normalize_account_id_untyped(account_id))
    /\ UNCHANGED <<character, settings, service>>

NextAccountId == NormalizeAccountId

SpecAccountId == InitAccountId /\ [][NextAccountId]_vars

----------------------------------------------------------------------------
\* the argument of the call is None or a str
StrOrNoneArg ==
    /\ call.op = "normalize_account_id"
    /\ IsNone(call.account_id) \/ call.account_id[1].t = "str"

\* the str argument trimmed and lower-cased, "" for None
TrimmedLower ==
    IF IsNone(call.account_id) THEN <<>> ELSE lower(strip(call.account_id[1].v))

\* C26: for a str or None argument normalize_account_id returns a non-empty
\* id that it maps to itself; the id is "default" exactly when the argument is
\* None, empty, whitespace only or "default" up to case and surrounding
\* whitespace, and otherwise the argument trimmed and lower-cased.
C26_Idempotent ==
    StrOrNoneArg =>
        /\ ~ret.exc
        /\ ret.id # <<>>
        /\ normalize_account_id(Some(ret.id)) = ret.id
        /\ (ret.id = DEFAULT_ACCOUNT_ID)
               <=> (TrimmedLower = <<>> \/ TrimmedLower = DEFAULT_ACCOUNT_ID)
        /\ (ret.id # DEFAULT_ACCOUNT_ID) => ret.id = TrimmedLower

\* a padded upper-case id comes back trimmed and lower-cased
C26_Witness ==
    /\ StrOrNoneArg
    /\ ~IsNone(call.account_id)
    /\ ~ret.exc
    /\ ret.id # DEFAULT_ACCOUNT_ID
    /\ ret.id # call.account_id[1].v
    /\ Len(ret.id) < Len(call.account_id[1].v)
    /\ \E i \in 1..Len(call.account_id[1].v) : call.account_id[1].v[i] = 65

\* C27: for every argument that is not a str, normalize_account_id returns
\* the default account id and does not raise.
C27_NonStringIsDefault ==
    (/\ call.op = "normalize_account_id"
     /\ ~IsNone(call.account_id)
     /\ call.account_id[1].t = "int")
    => (~ret.exc /\ ret.id = DEFAULT_ACCOUNT_ID)

----------------------------------------------------------------------------
\* the 0-based indices i inside the first limit characters of text, strictly
\* after floor(limit / 2), at which sep occurs
Breaks(text, limit, sep) ==
    {i \in 0..(limit - Len(sep)) :
        /\ i > limit \div 2
        /\ i + Len(sep) <= Len(text)
        /\ SubSeq(text, i + 1, i + Len(sep)) = sep}

SentenceBreaks(text, limit) ==
    Breaks(text, limit, <<46, 32>>) \cup Breaks(text, limit, <<33, 32>>)
        \cup Breaks(text, limit, <<63, 32>>)

\* the greatest index of a non-empty set of indices
Last(S) == CHOOSE i \in S : \A j \in S : j <= i

\* chunk and rest are text cut at index i: chunk is the first i + keep
\* characters and rest what follows the separator of skip characters, both
\* without the whitespace at the cut
CutAt(text, i, keep, skip, chunk, rest) ==
    /\ chunk = rstrip(SubSeq(text, 1, i + keep))
    /\ rest = lstrip(SubSeq(text, i + skip + 1, Len(text)))

\* chunk and rest are text cut after exactly limit characters
HardCut(text, limit, chunk, rest) == Len(chunk) = limit /\ chunk \o rest = text

\* chunk and rest are text cut by the first rule that qualifies
CutByPriority(text, limit, chunk, rest) ==
    IF Breaks(text, limit, <<10, 10>>) # {}
    THEN CutAt(text, Last(Breaks(text, limit, <<10, 10>>)), 0, 2, chunk, rest)
    ELSE IF Breaks(text, limit, <<10>>) # {}
    THEN CutAt(text, Last(Breaks(text, limit, <<10>>)), 0, 1, chunk, rest)
    ELSE IF SentenceBreaks(text, limit) # {}
    THEN CutAt(text, Last(SentenceBreaks(text, limit)), 1, 2, chunk, rest)
    ELSE IF Breaks(text, limit, <<32>>) # {}
    THEN CutAt(text, Last(Breaks(text, limit, <<32>>)), 0, 1, chunk, rest)
    ELSE HardCut(text, limit, chunk, rest)

\* the chunk a step of the loop added, "" when it added none
NewChunk(before, after) ==
    IF Len(after) > Len(before) THEN after[Len(after)] ELSE <<>>

\* C28: at every step of the loop of chunk_whatsapp_text where the remaining
\* text is longer than the limit, the text is cut by the first rule that
\* qualifies: the last "\n\n" inside the first limit characters and after
\* floor(limit / 2), else the last "\n", else the last ". ", "! " or "? "
\* (the terminator kept), else the last " ", else after exactly limit
\* characters.
C28_BreakPriority ==
    [][(/\ call.op = "chunk_whatsapp_text"
        /\ call.pc = "split"
        /\ Len(call.remaining) > effective_limit(call.limit))
       => CutByPriority(call.remaining, effective_limit(call.limit),
                        NewChunk(call.chunks, call'.chunks), call'.remaining)]_vars

----------------------------------------------------------------------------
(* service.py: WhatsAppService.  service is the instance: its config, its  *)
(* client (None, or the client built on the config), its chat_states dict  *)
(* and _is_running.                                                        *)

\* __init__
NewService ==
    [config |-> None, client |-> None, chat_states |-> <<>>, _is_running |-> FALSE]

\* types.py: WhatsAppChatState
WhatsAppChatState(phone_number_id, contact_wa_id, contact_name, last_message_at) ==
    [phone_number_id |-> phone_number_id, contact_wa_id |-> contact_wa_id,
     contact_name |-> contact_name, last_message_at |-> last_message_at]

\* the number a str of ASCII digits writes in base ten
RECURSIVE DecimalValue(_)
DecimalValue(s) ==
    IF s = <<>> THEN 0
    ELSE 10 * DecimalValue(SubSeq(s, 1, Len(s) - 1)) + (s[Len(s)] - 48)

\* int(s) for the strs of the model: the value of a run of ASCII digits,
\* ValueError for a str with another character or none
int(s) == IF IsDigits(s) THEN Return(DecimalValue(s)) ELSE Raise

\* d[k] = v
SetItem(d, k, v) == [x \in (DOMAIN d) \cup {k} |-> IF x = k THEN v ELSE d[x]]

\* what a part of handle_webhook leaves: chat_states, and whether it raised
Handled(chat_states) == [exc |-> FALSE, chat_states |-> chat_states]

Aborted(chat_states) == [exc |-> TRUE, chat_states |-> chat_states]

\* _handle_incoming_message keeping the name the contact already has
_handle_incoming_message_KeepsName(chat_states, message, phone_number_id) ==
    IF int(message.timestamp).exc THEN Aborted(chat_states)
    ELSE Handled(SetItem(chat_states, message.from_,
             WhatsAppChatState(phone_number_id, message.from_,
                               IF message.from_ \in DOMAIN chat_states
                               THEN chat_states[message.from_].contact_name
                               ELSE None,
                               Some(int(message.timestamp).val))))

_handle_incoming_message(chat_states, message, phone_number_id) ==
    IF int(message.timestamp).exc THEN Aborted(chat_states)
    ELSE Handled(SetItem(chat_states, message.from_,
             WhatsAppChatState(phone_number_id, message.from_, None,
                               Some(int(message.timestamp).val))))

\* for message in change.value.messages
RECURSIVE handle_messages(_, _, _)
handle_messages(chat_states, messages, phone_number_id) ==
    IF messages = <<>> THEN Handled(chat_states)
    ELSE LET r == _handle_incoming_message(chat_states, Head(messages), phone_number_id)
         IN  IF r.exc THEN r
             ELSE handle_messages(r.chat_states, Tail(messages), phone_number_id)

\* for contact in change.value.contacts; now is int(time.time())
RECURSIVE handle_contacts(_, _, _, _)
handle_contacts(chat_states, contacts, phone_number_id, now) ==
    IF contacts = <<>> THEN Handled(chat_states)
    ELSE handle_contacts(
             SetItem(chat_states, Head(contacts).wa_id,
                 WhatsAppChatState(phone_number_id, Head(contacts).wa_id,
                                   Some(Head(contacts).profile.name), Some(now))),
             Tail(contacts), phone_number_id, now)

\* the body of `for change in entry.changes`
handle_change_body(after_messages, change, now) ==
    IF after_messages.exc THEN after_messages
    ELSE IF TruthyList(change.value.contacts)
    THEN handle_contacts(after_messages.chat_states, change.value.contacts[1],
                         change.value.metadata.phone_number_id, now)
    ELSE after_messages

handle_change(chat_states, change, now) ==
    IF change.field # "messages" THEN Handled(chat_states)
    ELSE handle_change_body(
             IF TruthyList(change.value.messages)
             THEN handle_messages(chat_states, change.value.messages[1],
                                  change.value.metadata.phone_number_id)
             ELSE Handled(chat_states),
             change, now)

RECURSIVE handle_changes(_, _, _)
handle_changes(chat_states, changes, now) ==
    IF changes = <<>> THEN Handled(chat_states)
    ELSE LET r == handle_change(chat_states, Head(changes), now)
         IN  IF r.exc THEN r ELSE handle_changes(r.chat_states, Tail(changes), now)

\* for entry in event.entry
RECURSIVE handle_entries(_, _, _)
handle_entries(chat_states, entry, now) ==
    IF entry = <<>> THEN Handled(chat_states)
    ELSE LET r == handle_changes(chat_states, Head(entry).changes, now)
         IN  IF r.exc THEN r ELSE handle_entries(r.chat_states, Tail(entry), now)

handle_webhook(chat_states, event, now) == handle_entries(chat_states, event.entry, now)

\* client.py: WhatsAppClient.verify_webhook
client_verify_webhook(config, token) ==
    IF IsNone(config.webhook_verify_token) THEN FALSE
    ELSE token = config.webhook_verify_token[1]

verify_webhook(client, token) ==
    IF IsNone(client) THEN FALSE ELSE client_verify_webhook(client[1].config, token)

\* self.chat_states.get(wa_id)
get_chat_state(chat_states, wa_id) ==
    IF wa_id \in DOMAIN chat_states THEN Some(chat_states[wa_id]) ELSE None

\* start, given what get_config_from_env returned
start(config) ==
    IF IsNone(config) \/ ~config[1].enabled
    THEN [NewService EXCEPT !.config = config]
    ELSE [NewService EXCEPT !.config = config,
                            !.client = Some([config |-> config[1]]),
                            !._is_running = TRUE]

----------------------------------------------------------------------------
(* The inputs of the service: webhook events of one change on the phone    *)
(* number "p", or of two message-only changes on "q"; an event holds at    *)
(* most one contact, so one call reads the clock at most once (now)        *)

\* most messages of a change
MaxMessages == 1

\* "1", "2"
WaIds == {<<49>>, <<50>>}

\* "5", "x"
Timestamps == {<<53>>, <<120>>}

Times == {8, 9}

\* "t", "u"
Tokens == {<<116>>, <<117>>}

Messages == {[from_ |-> f, timestamp |-> t] : f \in WaIds, t \in Timestamps}

MessageLists ==
    {None, Some(<<>>)}
        \cup {Some(l) : l \in UNION {[1..n -> Messages] : n \in 1..MaxMessages}}

\* the contact is named "n"
ContactLists ==
    {None} \cup {Some(<<[wa_id |-> w, profile |-> [name |-> <<110>>]]>>) : w \in WaIds}

Change(field, phone_number_id, messages, contacts) ==
    [field |-> field,
     value |-> [metadata |-> [phone_number_id |-> phone_number_id],
                messages |-> messages, contacts |-> contacts]]

MessagesChanges ==
    {Change("messages", <<112>>, m, c) : m \in MessageLists, c \in ContactLists}

\* a change of another field, with a message and a contact in it
StatusesChanges ==
    {Change("statuses", <<112>>, Some(<<m>>), c) :
        m \in {x \in Messages : x.from_ = <<49>>}, c \in ContactLists \ {None}}

\* one message, no contacts, on the phone number "q"
PlainChanges ==
    {Change("messages", <<113>>, Some(<<m>>), None) : m \in Messages}

\* those whose message has a numeric timestamp
TimedChanges == {c \in PlainChanges : ~int(c.value.messages[1][1].timestamp).exc}

Events ==
    {[entry |-> <<>>], [entry |-> <<[changes |-> <<>>]>>]}
        \cup {[entry |-> <<[changes |-> <<c>>]>>] :
                  c \in MessagesChanges \cup StatusesChanges}
        \cup {[entry |-> <<[changes |-> <<c, d>>]>>] :
                  c \in PlainChanges, d \in PlainChanges}
        \cup {[entry |-> <<[changes |-> <<c>>], [changes |-> <<d>>]>>] :
                  c \in PlainChanges, d \in TimedChanges}

\* what get_config_from_env returns: None, or a config
Configs ==
    {None, Some([enabled |-> FALSE, webhook_verify_token |-> Some(<<116>>)])}
        \cup {Some([enabled |-> TRUE, webhook_verify_token |-> t]) :
                  t \in {None, Some(<<116>>)}}

\* the clock readings a call on event can make: time.time() is read only for
\* a contact
Clock(event) ==
    IF \E i \in 1..Len(event.entry) : \E j \in 1..Len(event.entry[i].changes) :
           /\ event.entry[i].changes[j].field = "messages"
           /\ TruthyList(event.entry[i].changes[j].value.contacts)
    THEN Times
    ELSE {CHOOSE t \in Times : \A u \in Times : t <= u}

InitService ==
    /\ character = None
    /\ settings = <<>>
    /\ service = NewService
    /\ call = NoCall
    /\ ret = NoOutcome

\* WhatsAppService.start(runtime): the call that makes the instance
Start ==
    /\ call = NoCall
    /\ \E config \in Configs :
        /\ service' = start(config)
        /\ call' = [op |-> "start", account_id |-> None, config |-> config]
        /\ ret' = Outcome("service", Return(start(config)))
    /\ UNCHANGED <<character, settings>>

Stop ==
    /\ service' = [service EXCEPT !._is_running = FALSE]
    /\ call' = [op |-> "stop", account_id |-> None]
    /\ ret' = Outcome("result", Return(None))
    /\ UNCHANGED <<character, settings>>

HandleWebhook ==
    /\ \E event \in Events : \E now \in Clock(event) :
        /\ service' = [service EXCEPT
                           !.chat_states = handle_webhook(@, event, now).chat_states]
        /\ call' = [op |-> "handle_webhook", account_id |-> None,
                    event |-> event, now |-> now]
        /\ ret' = Outcome("result",
                      IF handle_webhook(service.chat_states, event, now).exc
                      THEN Raise ELSE Return(None))
    /\ UNCHANGED <<character, settings>>

VerifyWebhook ==
    /\ \E token \in Tokens :
        /\ call' = [op |-> "verify_webhook", account_id |-> None, token |-> token]
        /\ ret' = Outcome("verified", Return(verify_webhook(service.client, token)))
    /\ UNCHANGED <<character, settings, service>>

GetChatState ==
    /\ \E wa_id \in WaIds :
        /\ call' = [op |-> "get_chat_state", account_id |-> None, wa_id |-> wa_id]
        /\ ret' = Outcome("state", Return(get_chat_state(service.chat_states, wa_id)))
    /\ UNCHANGED <<character, settings, service>>

NextService ==
    \/ Start
    \/ Stop
    \/ HandleWebhook
    \/ VerifyWebhook
    \/ GetChatState

SpecService == InitService /\ [][NextService]_vars

----------------------------------------------------------------------------
\* the list behind an optional list field
ListOf(x) == IF IsNone(x) THEN <<>> ELSE x[1]

\* the changes of an event, in order
ChangesOf(event) == Concat([i \in 1..Len(event.entry) |-> event.entry[i].changes])

\* what a change writes, in order: for a "messages" change a record for the
\* sender of each message, then one for each contact; nothing for another
\* field
ChangeWrites(change, now) ==
    IF change.field # "messages" THEN <<>>
    ELSE [i \in 1..Len(ListOf(change.value.messages)) |->
             [id |-> ListOf(change.value.messages)[i].from_,
              state |-> [phone_number_id |-> change.value.metadata.phone_number_id,
                         contact_wa_id |-> ListOf(change.value.messages)[i].from_,
                         contact_name |-> None,
                         last_message_at |->
                             Some(DecimalValue(ListOf(change.value.messages)[i].timestamp))]]]
         \o [i \in 1..Len(ListOf(change.value.contacts)) |->
             [id |-> ListOf(change.value.contacts)[i].wa_id,
              state |-> [phone_number_id |-> change.value.metadata.phone_number_id,
                         contact_wa_id |-> ListOf(change.value.contacts)[i].wa_id,
                         contact_name |-> Some(ListOf(change.value.contacts)[i].profile.name),
                         last_message_at |-> Some(now)]]]

EventWrites(event, now) ==
    Concat([i \in 1..Len(ChangesOf(event)) |-> ChangeWrites(ChangesOf(event)[i], now)])

\* the state the last write of writes to id k holds
LastWritten(writes, k) ==
    writes[Last({i \in 1..Len(writes) : writes[i].id = k})].state

\* a handle_webhook step from chat_states before to after: an id the event
\* does not write keeps its record or its absence, and when the call returns
\* every id it writes holds the record of its last write
WebhookStep(before, after, writes, returned) ==
    \A ids \in {{writes[i].id : i \in 1..Len(writes)}} :
        /\ \A k \in (DOMAIN after) \ ids :
               k \in DOMAIN before /\ after[k] = before[k]
        /\ returned =>
               \A k \in ids : k \in DOMAIN after /\ after[k] = LastWritten(writes, k)

\* C29: in every step of a WhatsAppService, no entry of chat_states is
\* removed and every entry's contact_wa_id is its key; only handle_webhook
\* changes chat_states, and after it returns, every sender of a message and
\* every contact of its "messages" changes has an entry that is the whole
\* record of the last write for that id, every other id's record being
\* unchanged.
C29_ChatStatesGrow ==
    [][/\ (DOMAIN service.chat_states) \subseteq (DOMAIN service'.chat_states)
       /\ \A k \in DOMAIN service'.chat_states :
              service'.chat_states[k].contact_wa_id = k
       /\ call'.op # "handle_webhook" => service'.chat_states = service.chat_states
       /\ call'.op = "handle_webhook" =>
              \A writes \in {EventWrites(call'.event, call'.now)} :
                  WebhookStep(service.chat_states, service'.chat_states,
                              writes, ~ret'.exc)]_vars

\* a change wrote the same id twice, the contact update replacing the record
\* of the message, while another id keeps the record of an earlier call
C29_Witness ==
    /\ call.op = "handle_webhook"
    /\ ~ret.exc
    /\ Len(EventWrites(call.event, call.now)) = 2
    /\ EventWrites(call.event, call.now)[1].id = EventWrites(call.event, call.now)[2].id
    /\ EventWrites(call.event, call.now)[1].state # EventWrites(call.event, call.now)[2].state
    /\ Cardinality(DOMAIN service.chat_states) = 2
    /\ \E k \in DOMAIN service.chat_states :
           service.chat_states[k].phone_number_id = <<113>>

----------------------------------------------------------------------------
\* C30: whenever normalize_whatsapp_target returns a target r that is not
\* None, normalize_whatsapp_target(r) returns r again.
C30_IdempotentOnResults ==
    (Returned("normalize_whatsapp_target") /\ ~IsNone(ret.target))
        => normalize_whatsapp_target(ret.target[1]) = ret.target

\* a user JID of ten digits or more became "+" and its digits
C30_Witness ==
    /\ Returned("normalize_whatsapp_target")
    /\ endswith(lower(call.value), USER_DOMAIN)
    /\ ~IsNone(ret.target)
    /\ IsE164(ret.target[1])
    /\ normalize_whatsapp_target(ret.target[1]) = ret.target

====
